---- MODULE Spec2Model ----
(***************************************************************************)
(* A model of the snake compiler (diamondback): the semantic checker       *)
(* check_prog, the pipeline compile_to_string (uniquify, sequentialize,    *)
(* space_needed, compile_to_instrs), the emitted x86-64 code run against   *)
(* the runtime stub, the reference interpreter, and lambda_lift.rs          *)
(* (uniquify, search_unbound, rewrite_params, lambda_lift).                *)
(*                                                                         *)
(* Machine words are Bits wide instead of 64: a snake number has Bits - 1  *)
(* bits, so the source's 2^62 is 2^(Bits-2) here and i64 is the range      *)
(* -2^(Bits-1) .. 2^(Bits-1) - 1.                                          *)
(***************************************************************************)
EXTENDS Integers, Sequences, FiniteSets, TLC

VARIABLES
    prog,       \* the surface program handed to the compiler (with spans)
    checkRes,   \* what check_prog returned for prog, NONE before the call
    compRes,    \* what compile_to_string returned for prog, NONE before the call
    mach,       \* the machine running the emitted code, NONE before start_here
    interpRes,  \* what the reference interpreter returned for prog, NONE before
    uniqRes,    \* the results of lambda_lift.rs uniquify on prog and on its own output
    liftRes     \* what lambda_lift returned for prog, one entry per run

vars == <<prog, checkRes, compRes, mach, interpRes, uniqRes, liftRes>>

Bits == 8

NONE == [none |-> TRUE]

(***************************************************************************)
(* Numbers                                                                 *)
(***************************************************************************)
I63_MAX == 2^(Bits - 2) - 1
I63_MIN == -(2^(Bits - 2))
I64_MAX == 2^(Bits - 1) - 1
I64_MIN == -(2^(Bits - 1))

(***************************************************************************)
(* syntax.rs: the surface AST.  ann is the node's span; the parser gives   *)
(* every node its own span, modelled as the node's path from the root.     *)
(***************************************************************************)
Num(i) == [tag |-> "Num", n |-> i, ann |-> <<>>]
Bool(v) == [tag |-> "Bool", b |-> v, ann |-> <<>>]
Var(s) == [tag |-> "Var", name |-> s, ann |-> <<>>]
Prim1(p, e) == [tag |-> "Prim", op |-> p, exps |-> <<e>>, ann |-> <<>>]
Prim2(p, e1, e2) == [tag |-> "Prim", op |-> p, exps |-> <<e1, e2>>, ann |-> <<>>]
Let(bs, e) == [tag |-> "Let", bindings |-> bs, body |-> e, ann |-> <<>>]
If(c, t, e) == [tag |-> "If", cond |-> c, thn |-> t, els |-> e, ann |-> <<>>]
FunDecl(f, ps, e) == [name |-> f, parameters |-> ps, body |-> e, ann |-> <<>>]
FunDefs(ds, e) == [tag |-> "FunDefs", decls |-> ds, body |-> e, ann |-> <<>>]
Call(f, ps) == [tag |-> "Call", func |-> f, params |-> ps, ann |-> <<>>]

Prims1 == {"Add1", "Sub1", "Not", "Print", "IsBool", "IsNum"}
Prims2 == {"Add", "Sub", "Mul", "And", "Or", "Lt", "Gt", "Le", "Ge", "Eq", "Neq"}

RECURSIVE Annotate(_, _)
\* The spans the parser attaches: each node gets the path that leads to it.
Annotate(e, p) ==
    CASE e.tag \in {"Num", "Bool", "Var"} -> [e EXCEPT !.ann = p]
      [] e.tag = "Prim" ->
            [e EXCEPT !.ann = p,
                      !.exps = [i \in DOMAIN e.exps |-> Annotate(e.exps[i], Append(p, i))]]
      [] e.tag = "Let" ->
            [e EXCEPT !.ann = p,
                      !.bindings = [i \in DOMAIN e.bindings |->
                            <<e.bindings[i][1], Annotate(e.bindings[i][2], Append(p, i))>>],
                      !.body = Annotate(e.body, Append(p, 0))]
      [] e.tag = "If" ->
            [e EXCEPT !.ann = p,
                      !.cond = Annotate(e.cond, Append(p, 1)),
                      !.thn = Annotate(e.thn, Append(p, 2)),
                      !.els = Annotate(e.els, Append(p, 3))]
      [] e.tag = "FunDefs" ->
            [e EXCEPT !.ann = p,
                      !.decls = [i \in DOMAIN e.decls |->
                            [e.decls[i] EXCEPT !.ann = Append(p, i),
                                               !.body = Annotate(e.decls[i].body, <<>> \o p \o <<i, 1>>)]],
                      !.body = Annotate(e.body, Append(p, 0))]
      [] e.tag = "Call" ->
            [e EXCEPT !.ann = p,
                      !.params = [i \in DOMAIN e.params |-> Annotate(e.params[i], Append(p, i))]]

RECURSIVE Nodes(_)
\* Every expression node of a program (function bodies included).
Nodes(e) ==
    {e} \cup
    CASE e.tag \in {"Num", "Bool", "Var"} -> {}
      [] e.tag = "Prim" -> UNION {Nodes(e.exps[i]) : i \in DOMAIN e.exps}
      [] e.tag = "Let" ->
            UNION {Nodes(e.bindings[i][2]) : i \in DOMAIN e.bindings} \cup Nodes(e.body)
      [] e.tag = "If" -> Nodes(e.cond) \cup Nodes(e.thn) \cup Nodes(e.els)
      [] e.tag = "FunDefs" ->
            UNION {Nodes(e.decls[i].body) : i \in DOMAIN e.decls} \cup Nodes(e.body)
      [] e.tag = "Call" -> UNION {Nodes(e.params[i]) : i \in DOMAIN e.params}

\* All declarations of all FunDefs groups of a program.
DeclsOf(e) ==
    UNION {{n.decls[i] : i \in DOMAIN n.decls} : n \in {m \in Nodes(e) : m.tag = "FunDefs"}}

HasFunctions(e) == \E n \in Nodes(e) : n.tag \in {"FunDefs", "Call"}

(***************************************************************************)
(* compile.rs: CompileErr and check_prog                                   *)
(***************************************************************************)
Ok == [ok |-> TRUE]
Err(e) == [ok |-> FALSE, err |-> e]

UnboundVariable(s, a) == [variant |-> "UnboundVariable", unbound |-> s, location |-> a]
UndefinedFunction(s, a) == [variant |-> "UndefinedFunction", undefined |-> s, location |-> a]
DuplicateBinding(s, a) == [variant |-> "DuplicateBinding", duplicated_name |-> s, location |-> a]
Overflow(i, a) == [variant |-> "Overflow", num |-> i, location |-> a]
DuplicateFunName(s, a) == [variant |-> "DuplicateFunName", duplicated_name |-> s, location |-> a]
DuplicateArgName(s, a) == [variant |-> "DuplicateArgName", duplicated_name |-> s, location |-> a]
FunctionUsedAsValue(s, a) == [variant |-> "FunctionUsedAsValue", function_name |-> s, location |-> a]
ValueUsedAsFunction(s, a) == [variant |-> "ValueUsedAsFunction", variable_name |-> s, location |-> a]
FunctionCalledWrongArity(s, n, m, a) ==
    [variant |-> "FunctionCalledWrongArity", function_name |-> s,
     correct_arity |-> n, arity_used |-> m, location |-> a]

\* enum Symbol
SymFunc(ps) == [kind |-> "Func", params |-> ps]
SymVar == [kind |-> "Var"]

\* HashMap::new() and HashMap::insert
EmptyMap == <<>>
Insert(m, k, v) == [x \in DOMAIN m \cup {k} |-> IF x = k THEN v ELSE m[x]]

RECURSIVE check_prog_inner(_, _)
RECURSIVE check_exps(_, _, _)
RECURSIVE check_let(_, _, _, _, _, _)
RECURSIVE check_fundefs(_, _, _, _, _, _)

\* check_num with the upper limit one too low
check_num_off_by_one(i, ann) ==
    IF i >= I63_MAX \/ i < I63_MIN THEN Err(Overflow(i, ann)) ELSE Ok

\* Exp::Num
check_num(i, ann) ==
    IF i > I63_MAX \/ i < I63_MIN THEN Err(Overflow(i, ann)) ELSE Ok

\* Exp::Var
check_var(name, ann, symbols) ==
    IF name \notin DOMAIN symbols THEN Err(UnboundVariable(name, ann))
    ELSE IF symbols[name].kind = "Func" THEN Err(FunctionUsedAsValue(name, ann))
    ELSE Ok

\* for e in exps { check_prog_inner(e, symbols)?; } Ok(())   (from index i on)
check_exps(exps, i, symbols) ==
    IF i > Len(exps) THEN Ok
    ELSE LET r == check_prog_inner(exps[i], symbols)
         IN  IF ~r.ok THEN r ELSE check_exps(exps, i + 1, symbols)

\* check_let without the test of the names seen so far
check_let_no_appeared(bindings, i, scoped_symbols, appeared, body, ann) ==
    IF i > Len(bindings) THEN check_prog_inner(body, scoped_symbols)
    ELSE LET name == bindings[i][1]
             value == bindings[i][2]
             scoped2 == Insert(scoped_symbols, name, SymVar)
             r == check_prog_inner(value, scoped2)
         IN  IF ~r.ok THEN r
             ELSE check_let(bindings, i + 1, scoped2, appeared \cup {name}, body, ann)

\* Exp::Let: the loop over the bindings (from index i on), then the body
check_let(bindings, i, scoped_symbols, appeared, body, ann) ==
    IF i > Len(bindings) THEN check_prog_inner(body, scoped_symbols)
    ELSE LET name == bindings[i][1]
             value == bindings[i][2]
         IN  IF name \in appeared THEN Err(DuplicateBinding(name, ann))
             ELSE LET scoped2 == Insert(scoped_symbols, name, SymVar)
                      r == check_prog_inner(value, scoped2)
                  IN  IF ~r.ok THEN r
                      ELSE check_let(bindings, i + 1, scoped2, appeared \cup {name}, body, ann)

\* Exp::FunDefs: the loop over the declarations (from index i on), then the body
check_fundefs(decls, i, scoped_symbols, mutual_funcs, body, ann) ==
    IF i > Len(decls) THEN check_prog_inner(body, scoped_symbols)
    ELSE LET decl == decls[i]
         IN  IF decl.name \in mutual_funcs THEN Err(DuplicateFunName(decl.name, ann))
             ELSE LET scoped2 == Insert(scoped_symbols, decl.name, SymFunc(decl.parameters))
                      r == check_prog_inner(decl.body, scoped2)
                  IN  IF ~r.ok THEN r
                      ELSE check_fundefs(decls, i + 1, scoped2,
                                         mutual_funcs \cup {decl.name}, body, ann)

\* Exp::Call
check_call(func, params, ann, symbols) ==
    IF func \notin DOMAIN symbols THEN Err(UndefinedFunction(func, ann))
    ELSE IF symbols[func].kind = "Var" THEN Err(ValueUsedAsFunction(func, ann))
    ELSE IF Len(params) # Len(symbols[func].params)
         THEN Err(FunctionCalledWrongArity(func, Len(symbols[func].params), Len(params), ann))
    ELSE check_exps(params, 1, symbols)

\* Exp::If
check_if(cond, thn, els, symbols) ==
    LET r1 == check_prog_inner(cond, symbols)
    IN  IF ~r1.ok THEN r1
        ELSE LET r2 == check_prog_inner(thn, symbols)
             IN  IF ~r2.ok THEN r2 ELSE check_prog_inner(els, symbols)

check_prog_inner(e, symbols) ==
    CASE e.tag = "Num" -> check_num(e.n, e.ann)
      [] e.tag = "Var" -> check_var(e.name, e.ann, symbols)
      [] e.tag = "Prim" -> check_exps(e.exps, 1, symbols)
      [] e.tag = "Let" -> check_let(e.bindings, 1, symbols, {}, e.body, e.ann)
      [] e.tag = "Bool" -> Ok
      [] e.tag = "If" -> check_if(e.cond, e.thn, e.els, symbols)
      [] e.tag = "FunDefs" -> check_fundefs(e.decls, 1, symbols, {}, e.body, e.ann)
      [] e.tag = "Call" -> check_call(e.func, e.params, e.ann, symbols)

check_prog(p) == check_prog_inner(p, EmptyMap)

(***************************************************************************)
(* compile.rs: uniquify.  A result is [ok, e, c]: the renamed expression   *)
(* and the counter after the call, or a panic (a HashMap index with a      *)
(* missing key).                                                           *)
(***************************************************************************)
Panic(msg) == [ok |-> FALSE, panic |-> msg]

RECURSIVE uniquify(_, _, _)
RECURSIVE uniquify_exps(_, _, _, _, _)
RECURSIVE uniquify_bindings(_, _, _, _, _)
RECURSIVE uniquify_funnames(_, _, _, _)
RECURSIVE uniquify_params(_, _, _, _)
RECURSIVE uniquify_decls(_, _, _, _, _, _)

\* subjects.iter().map(|s| uniquify(s, mapping, counter)).collect()
uniquify_exps(exps, i, mapping, counter, acc) ==
    IF i > Len(exps) THEN [ok |-> TRUE, es |-> acc, c |-> counter]
    ELSE LET r == uniquify(exps[i], mapping, counter)
         IN  IF ~r.ok THEN r
             ELSE uniquify_exps(exps, i + 1, mapping, r.c, Append(acc, r.e))

\* Exp::Let: the closure mapped over the bindings
uniquify_bindings(bindings, i, scoped_mapping, counter, acc) ==
    IF i > Len(bindings) THEN [ok |-> TRUE, bs |-> acc, m |-> scoped_mapping, c |-> counter]
    ELSE LET var == bindings[i][1]
             value == bindings[i][2]
             new_var == ToString(counter + 1)
             r == uniquify(value, scoped_mapping, counter + 1)
         IN  IF ~r.ok THEN r
             ELSE uniquify_bindings(bindings, i + 1, Insert(scoped_mapping, var, new_var),
                                    r.c, Append(acc, <<new_var, r.e>>))

\* Exp::FunDefs: the first loop, a fresh name for every function of the group
uniquify_funnames(decls, i, scoped_mapping, counter) ==
    IF i > Len(decls) THEN [m |-> scoped_mapping, c |-> counter]
    ELSE uniquify_funnames(decls, i + 1,
                           Insert(scoped_mapping, decls[i].name, ToString(counter + 1)),
                           counter + 1)

\* decl.parameters.iter().map(|param| scoped_mapping[param].clone()).collect()
uniquify_params(parameters, i, scoped_mapping, acc) ==
    IF i > Len(parameters) THEN [ok |-> TRUE, ps |-> acc]
    ELSE IF parameters[i] \notin DOMAIN scoped_mapping
         THEN Panic("uniquify: scoped_mapping[param]")
    ELSE uniquify_params(parameters, i + 1, scoped_mapping,
                         Append(acc, scoped_mapping[parameters[i]]))

\* Exp::FunDefs: the closure mapped over the declarations; each declaration's
\* body field is uniquify(&body, ..) of the group's trailing body
uniquify_decls(decls, i, scoped_mapping, body, counter, acc) ==
    IF i > Len(decls) THEN [ok |-> TRUE, ds |-> acc, c |-> counter]
    ELSE LET ps == uniquify_params(decls[i].parameters, 1, scoped_mapping, <<>>)
         IN  IF ~ps.ok THEN ps
             ELSE LET r == uniquify(body, scoped_mapping, counter)
                  IN  IF ~r.ok THEN r
                      ELSE uniquify_decls(decls, i + 1, scoped_mapping, body, r.c,
                               Append(acc, [name |-> scoped_mapping[decls[i].name],
                                            parameters |-> ps.ps,
                                            body |-> r.e, ann |-> <<>>]))

uniquify(e, mapping, counter) ==
    CASE e.tag = "Let" ->
            LET bs == uniquify_bindings(e.bindings, 1, mapping, counter, <<>>)
            IN  IF ~bs.ok THEN bs
                ELSE LET b == uniquify(e.body, bs.m, bs.c)
                     IN  IF ~b.ok THEN b
                         ELSE [ok |-> TRUE, e |-> Let(bs.bs, b.e), c |-> b.c]
      [] e.tag = "FunDefs" ->
            LET fn == uniquify_funnames(e.decls, 1, mapping, counter)
                ds == uniquify_decls(e.decls, 1, fn.m, e.body, fn.c, <<>>)
            IN  IF ~ds.ok THEN ds
                ELSE LET b == uniquify(e.body, mapping, ds.c)
                     IN  IF ~b.ok THEN b
                         ELSE [ok |-> TRUE, e |-> FunDefs(ds.ds, b.e), c |-> b.c]
      [] e.tag = "Var" ->
            IF e.name \notin DOMAIN mapping THEN Panic("uniquify: mapping[v]")
            ELSE [ok |-> TRUE, e |-> Var(mapping[e.name]), c |-> counter]
      [] e.tag = "Num" -> [ok |-> TRUE, e |-> Num(e.n), c |-> counter]
      [] e.tag = "Bool" -> [ok |-> TRUE, e |-> Bool(e.b), c |-> counter]
      [] e.tag = "Prim" ->
            LET r == uniquify_exps(e.exps, 1, mapping, counter, <<>>)
            IN  IF ~r.ok THEN r
                ELSE [ok |-> TRUE,
                      e |-> [tag |-> "Prim", op |-> e.op, exps |-> r.es, ann |-> <<>>],
                      c |-> r.c]
      [] e.tag = "If" ->
            LET r1 == uniquify(e.cond, mapping, counter)
            IN  IF ~r1.ok THEN r1
                ELSE LET r2 == uniquify(e.thn, mapping, r1.c)
                     IN  IF ~r2.ok THEN r2
                         ELSE LET r3 == uniquify(e.els, mapping, r2.c)
                              IN  IF ~r3.ok THEN r3
                                  ELSE [ok |-> TRUE, e |-> If(r1.e, r2.e, r3.e), c |-> r3.c]
      [] e.tag = "Call" ->
            LET r == uniquify_exps(e.params, 1, mapping, counter, <<>>)
            IN  IF ~r.ok THEN r
                ELSE IF e.func \notin DOMAIN mapping THEN Panic("uniquify: mapping[func]")
                ELSE [ok |-> TRUE, e |-> Call(mapping[e.func], r.es), c |-> r.c]

(***************************************************************************)
(* syntax.rs: the sequential IR; compile.rs: sequentialize                 *)
(***************************************************************************)
ImmNum(i) == [k |-> "Num", n |-> i]
ImmBool(v) == [k |-> "Bool", b |-> v]
ImmVar(s) == [k |-> "Var", name |-> s]
SeqImm(i) == [tag |-> "Imm", imm |-> i]
SeqPrim(p, is) == [tag |-> "Prim", op |-> p, imms |-> is]
SeqLet(x, b, e) == [tag |-> "Let", var |-> x, bound_exp |-> b, body |-> e]
SeqIf(c, t, e) == [tag |-> "If", cond |-> c, thn |-> t, els |-> e]

\* fn try_flatten_prim1: Some(..) as [some |-> TRUE, e |-> ..]
try_flatten_prim1(p, exp) ==
    IF exp.tag = "Imm" THEN [some |-> TRUE, e |-> SeqPrim(p, <<exp.imm>>)]
    ELSE [some |-> FALSE]

\* fn try_flatten_prim2: the result and the counter after the call
try_flatten_prim2(p, exp1, exp2, counter) ==
    IF exp1.tag = "Imm" THEN
        IF exp2.tag = "Imm"
        THEN [some |-> TRUE, e |-> SeqPrim(p, <<exp1.imm, exp2.imm>>), c |-> counter]
        ELSE LET name2 == "#prim2_2_" \o ToString(counter + 1)
             IN  [some |-> TRUE,
                  e |-> SeqLet(name2, exp2, SeqPrim(p, <<exp1.imm, ImmVar(name2)>>)),
                  c |-> counter + 1]
    ELSE IF exp2.tag = "Imm" THEN
        LET name1 == "#prim2_1_" \o ToString(counter + 1)
        IN  [some |-> TRUE,
             e |-> SeqLet(name1, exp1, SeqPrim(p, <<ImmVar(name1), exp2.imm>>)),
             c |-> counter + 1]
    ELSE [some |-> FALSE, c |-> counter]

RECURSIVE sequentialize(_, _)
RECURSIVE sequentialize_let(_, _, _, _, _)

\* Exp::Let: the loop over bindings.iter().rev(), from index i down to 1;
\* optionRes is the Option<SeqExp> built so far
sequentialize_let(bindings, i, body, optionRes, counter) ==
    IF i < 1 THEN
        IF optionRes.some THEN [ok |-> TRUE, e |-> optionRes.e, c |-> counter]
        ELSE Panic("sequentialize: optionRes.unwrap()")
    ELSE LET b == sequentialize(bindings[i][2], counter)
         IN  IF ~b.ok THEN b
             ELSE IF optionRes.some
                  THEN sequentialize_let(bindings, i - 1, body,
                          [some |-> TRUE, e |-> SeqLet(bindings[i][1], b.e, optionRes.e)], b.c)
                  ELSE LET r == sequentialize(body, b.c)
                       IN  IF ~r.ok THEN r
                           ELSE sequentialize_let(bindings, i - 1, body,
                                   [some |-> TRUE, e |-> SeqLet(bindings[i][1], b.e, r.e)], r.c)

sequentialize(e, counter) ==
    CASE e.tag = "Bool" -> [ok |-> TRUE, e |-> SeqImm(ImmBool(e.b)), c |-> counter]
      [] e.tag = "Num" -> [ok |-> TRUE, e |-> SeqImm(ImmNum(e.n)), c |-> counter]
      [] e.tag = "Var" -> [ok |-> TRUE, e |-> SeqImm(ImmVar(e.name)), c |-> counter]
      [] e.tag = "Prim" ->
            IF Len(e.exps) = 1 THEN
                LET a == sequentialize(e.exps[1], counter)
                IN  IF ~a.ok THEN a
                    ELSE LET flattened == try_flatten_prim1(e.op, a.e)
                             name1 == "#prim1_" \o ToString(a.c + 1)
                         IN  IF flattened.some
                             THEN [ok |-> TRUE, e |-> flattened.e, c |-> a.c]
                             ELSE [ok |-> TRUE,
                                   e |-> SeqLet(name1, a.e, SeqPrim(e.op, <<ImmVar(name1)>>)),
                                   c |-> a.c + 1]
            ELSE
                LET a == sequentialize(e.exps[1], counter)
                IN  IF ~a.ok THEN a
                    ELSE LET b == sequentialize(e.exps[2], a.c)
                         IN  IF ~b.ok THEN b
                             ELSE LET flattened == try_flatten_prim2(e.op, a.e, b.e, b.c)
                                      name1 == "#prim2_1_" \o ToString(b.c + 1)
                                      name2 == "#prim2_2_" \o ToString(b.c + 1)
                                  IN  IF flattened.some
                                      THEN [ok |-> TRUE, e |-> flattened.e, c |-> flattened.c]
                                      ELSE [ok |-> TRUE,
                                            e |-> SeqLet(name1, a.e,
                                                    SeqLet(name2, b.e,
                                                      SeqPrim(e.op, <<ImmVar(name1), ImmVar(name2)>>))),
                                            c |-> b.c + 1]
      [] e.tag = "Let" ->
            sequentialize_let(e.bindings, Len(e.bindings), e.body, [some |-> FALSE], counter)
      [] e.tag = "If" ->
            LET var_name == "#if_" \o ToString(counter + 1)
                c0 == sequentialize(e.cond, counter + 1)
            IN  IF ~c0.ok THEN c0
                ELSE LET t == sequentialize(e.thn, c0.c)
                     IN  IF ~t.ok THEN t
                         ELSE LET el == sequentialize(e.els, t.c)
                              IN  IF ~el.ok THEN el
                                  ELSE [ok |-> TRUE,
                                        e |-> SeqLet(var_name, c0.e,
                                                SeqIf(ImmVar(var_name), t.e, el.e)),
                                        c |-> el.c]
      [] e.tag = "FunDefs" -> Panic("sequentialize: todo!() at Exp::FunDefs")
      [] e.tag = "Call" -> Panic("sequentialize: todo!() at Exp::Call")

(***************************************************************************)
(* asm.rs (the instruction ADT, as compile.rs uses it) and the code        *)
(* generator of compile.rs                                                 *)
(***************************************************************************)
Reg(x) == [k |-> "reg", r |-> x]
Imm(x) == [k |-> "imm", v |-> x]
MemRef(off) == [k |-> "mem", reg |-> "rsp", offset |-> off]

Mov(d, a) == [op |-> "Mov", dst |-> d, src |-> a]
Bin(o, d, a) == [op |-> o, dst |-> d, src |-> a]
Jump(o, l) == [op |-> o, label |-> l]
Label(l) == [op |-> "Label", label |-> l]
Ret == [op |-> "Ret"]

\* i64 values as machine words and back
Word(i) == i % (2^Bits)
Signed(w) == IF w >= 2^(Bits - 1) THEN w - 2^Bits ELSE w

SNAKE_TRU == 2^Bits - 1
SNAKE_FLS == 2^(Bits - 1) - 1
NEG_MASK == 2^(Bits - 1) - 1
NON_NEG_MASK == 2^(Bits - 1)
BOOL_MASK == 2^(Bits - 1)

\* OVERFLOW naming the trampoline of the arithmetic type error
OVERFLOW_misdirected == "arith_error"

OVERFLOW == "overflow_error"
ARITH_ERROR == "arith_error"
CMP_ERROR == "cmp_error"
IF_ERROR == "if_error"
LOGIC_ERROR == "logic_error"
SNAKE_ERROR == "snake_error"

RECURSIVE get_from(_, _, _)
\* fn get: the loop over env.iter().rev(), from index i down; None is NoSlot
NoSlot == 0
get_from(env, x, i) ==
    IF i < 1 THEN NoSlot
    ELSE IF env[i][1] = x THEN env[i][2]
    ELSE get_from(env, x, i - 1)

get(env, x) == get_from(env, x, Len(env))

\* fn imm_to_arg64; a failed get(..).unwrap() leaves MemRef(NoSlot)
imm_to_arg64(imm, stack) ==
    CASE imm.k = "Num" -> Imm(Signed(Word(imm.n * 2)))
      [] imm.k = "Var" -> MemRef(get(stack, imm.name))
      [] imm.k = "Bool" -> IF imm.b THEN Imm(SNAKE_TRU) ELSE Imm(SNAKE_FLS)

imm_to_rax(imm, stack) == <<Mov(Reg("rax"), imm_to_arg64(imm, stack))>>

is_neg == <<Mov(Reg("rdx"), Imm(NEG_MASK)), Bin("Or", Reg("rax"), Reg("rdx"))>>

is_non_neg ==
    <<Mov(Reg("rdx"), Imm(NON_NEG_MASK)), Bin("Xor", Reg("rax"), Reg("rdx")),
      Mov(Reg("rdx"), Imm(SNAKE_FLS)), Bin("Or", Reg("rax"), Reg("rdx"))>>

arith_check(reg) ==
    <<Mov(Reg("rcx"), Reg(reg)), Bin("And", Reg("rcx"), Imm(1)),
      Bin("Cmp", Reg("rcx"), Imm(1)), Jump("Je", ARITH_ERROR)>>

\* cmp_check jumping where arith_check jumps
cmp_check_as_arith(reg) ==
    <<Mov(Reg("rcx"), Reg(reg)), Bin("And", Reg("rcx"), Imm(1)),
      Bin("Cmp", Reg("rcx"), Imm(1)), Jump("Je", ARITH_ERROR)>>

cmp_check(reg) ==
    <<Mov(Reg("rcx"), Reg(reg)), Bin("And", Reg("rcx"), Imm(1)),
      Bin("Cmp", Reg("rcx"), Imm(1)), Jump("Je", CMP_ERROR)>>

\* sub_for_cmp subtracting the tagged operands, without the two sar
sub_for_cmp_tagged(exps, stack, reverse) ==
    (IF reverse
     THEN <<Mov(Reg("rdx"), imm_to_arg64(exps[1], stack)),
            Mov(Reg("rax"), imm_to_arg64(exps[2], stack))>>
     ELSE <<Mov(Reg("rax"), imm_to_arg64(exps[1], stack)),
            Mov(Reg("rdx"), imm_to_arg64(exps[2], stack))>>)
    \o cmp_check("rax")
    \o cmp_check("rdx")
    \o <<Bin("Sub", Reg("rax"), Reg("rdx"))>>

sub_for_cmp(exps, stack, reverse) ==
    (IF reverse
     THEN <<Mov(Reg("rdx"), imm_to_arg64(exps[1], stack)),
            Mov(Reg("rax"), imm_to_arg64(exps[2], stack))>>
     ELSE <<Mov(Reg("rax"), imm_to_arg64(exps[1], stack)),
            Mov(Reg("rdx"), imm_to_arg64(exps[2], stack))>>)
    \o cmp_check("rax")
    \o cmp_check("rdx")
    \o <<Bin("Sar", Reg("rax"), Imm(1)),
         Bin("Sar", Reg("rdx"), Imm(1)),
         Bin("Sub", Reg("rax"), Reg("rdx"))>>

logic_check(reg) ==
    <<Mov(Reg("rcx"), Reg(reg)), Bin("And", Reg("rcx"), Imm(1)),
      Bin("Cmp", Reg("rcx"), Imm(0)), Jump("Je", LOGIC_ERROR)>>

if_check(reg) ==
    <<Mov(Reg("rcx"), Reg(reg)), Bin("And", Reg("rcx"), Imm(1)),
      Bin("Cmp", Reg("rcx"), Imm(0)), Jump("Je", IF_ERROR)>>

\* Prim::Print without the add that gives the frame back
compile_print_no_restore(exps, max_stack, stack) ==
    <<Mov(Reg("rdi"), imm_to_arg64(exps[1], stack)),
      Bin("Sub", Reg("rsp"), Imm(max_stack)),
      Jump("Call", "print_snake_val")>>

\* Prim::Print handing its operand over in rsi
compile_print_in_rsi(exps, max_stack, stack) ==
    <<Mov(Reg("rsi"), imm_to_arg64(exps[1], stack)),
      Bin("Sub", Reg("rsp"), Imm(max_stack)),
      Jump("Call", "print_snake_val"),
      Bin("Add", Reg("rsp"), Imm(max_stack))>>

\* Prim::Print
compile_print(exps, max_stack, stack) ==
    <<Mov(Reg("rdi"), imm_to_arg64(exps[1], stack)),
      Bin("Sub", Reg("rsp"), Imm(max_stack)),
      Jump("Call", "print_snake_val"),
      Bin("Add", Reg("rsp"), Imm(max_stack))>>

\* SeqExp::Prim: the instructions and the counter after them
compile_prim(p, exps, counter, max_stack, stack) ==
    LET res == imm_to_rax(exps[1], stack)
        arith2 == res \o arith_check("rax")
                         \o <<Mov(Reg("rdx"), imm_to_arg64(exps[2], stack))>>
                         \o arith_check("rdx")
        logic2(o) == res \o logic_check("rax")
                         \o <<Mov(Reg("rdx"), imm_to_arg64(exps[2], stack))>>
                         \o logic_check("rdx")
                         \o <<Bin(o, Reg("rax"), Reg("rdx"))>>
        fls_label == "false_" \o ToString(counter + 1)
        done_label == "cmp_done_" \o ToString(counter + 1)
        eq(j) == res \o <<Mov(Reg("rdx"), imm_to_arg64(exps[2], stack)),
                          Bin("Cmp", Reg("rax"), Reg("rdx")),
                          Jump(j, fls_label),
                          Mov(Reg("rax"), Imm(SNAKE_TRU)),
                          Jump("Jmp", done_label),
                          Label(fls_label),
                          Mov(Reg("rax"), Imm(SNAKE_FLS)),
                          Label(done_label)>>
        same(is) == [is |-> is, c |-> counter]
    IN  CASE p = "Add" ->
               same(arith2 \o <<Bin("Add", Reg("rax"), Reg("rdx")), Jump("Jo", OVERFLOW)>>)
          [] p = "Sub" ->
               same(arith2 \o <<Bin("Sub", Reg("rax"), Reg("rdx")), Jump("Jo", OVERFLOW)>>)
          [] p = "Mul" ->
               same(arith2 \o <<Bin("Sar", Reg("rdx"), Imm(1)),
                                   Bin("IMul", Reg("rax"), Reg("rdx")),
                                   Jump("Jo", OVERFLOW)>>)
          [] p = "Add1" ->
               same(res \o arith_check("rax")
                        \o <<Bin("Add", Reg("rax"), Imm(2)), Jump("Jo", OVERFLOW)>>)
          [] p = "Sub1" ->
               same(res \o arith_check("rax")
                        \o <<Bin("Sub", Reg("rax"), Imm(2)), Jump("Jo", OVERFLOW)>>)
          [] p = "Not" ->
               same(res \o logic_check("rax")
                        \o <<Mov(Reg("rdx"), Imm(BOOL_MASK)),
                             Bin("Xor", Reg("rax"), Reg("rdx"))>>)
          [] p = "Print" ->
               same(compile_print(exps, max_stack, stack))
          [] p = "IsBool" ->
               same(res \o <<Mov(Reg("rdx"), Imm(SNAKE_FLS)),
                             Bin("And", Reg("rax"), Reg("rdx")),
                             Bin("Shl", Reg("rax"), Imm(Bits - 1)),
                             Bin("Or", Reg("rax"), Reg("rdx"))>>)
          [] p = "IsNum" ->
               same(res \o <<Mov(Reg("rdx"), Imm(SNAKE_FLS)),
                             Bin("Xor", Reg("rax"), Reg("rdx")),
                             Bin("Shl", Reg("rax"), Imm(Bits - 1)),
                             Bin("Or", Reg("rax"), Reg("rdx"))>>)
          [] p = "And" -> same(logic2("And"))
          [] p = "Or" -> same(logic2("Or"))
          [] p = "Lt" -> same(res \o sub_for_cmp(exps, stack, FALSE) \o is_neg)
          [] p = "Gt" -> same(res \o sub_for_cmp(exps, stack, TRUE) \o is_neg)
          [] p = "Le" -> same(res \o sub_for_cmp(exps, stack, TRUE) \o is_non_neg)
          [] p = "Ge" -> same(res \o sub_for_cmp(exps, stack, FALSE) \o is_non_neg)
          [] p = "Eq" -> [is |-> eq("Jne"), c |-> counter + 1]
          [] p = "Neq" -> [is |-> eq("Je"), c |-> counter + 1]

RECURSIVE compile_to_instrs_inner(_, _, _, _)
\* compile_to_instrs_inner lowering both branches of an If from the same counter
compile_to_instrs_inner_same_counter(e, counter, max_stack, stack) ==
    CASE e.tag = "Imm" -> [is |-> imm_to_rax(e.imm, stack), c |-> counter, stack |-> stack]
      [] e.tag = "Prim" ->
            LET r == compile_prim(e.op, e.imms, counter, max_stack, stack)
            IN  [is |-> r.is, c |-> r.c, stack |-> stack]
      [] e.tag = "Let" ->
            LET b == compile_to_instrs_inner(e.bound_exp, counter, max_stack, stack)
                offset == (Len(b.stack) + 1) * 8
                r == compile_to_instrs_inner(e.body, b.c, max_stack,
                                             Append(b.stack, <<e.var, offset>>))
            IN  [is |-> b.is \o <<Mov(MemRef(offset), Reg("rax"))>> \o r.is,
                 c |-> r.c, stack |-> r.stack]
      [] e.tag = "If" ->
            LET els_label == "else_" \o ToString(counter + 1)
                done_label == "done_" \o ToString(counter + 1)
                t == compile_to_instrs_inner(e.thn, counter + 1, max_stack, stack)
                el == compile_to_instrs_inner(e.els, counter + 1, max_stack, stack)
            IN  [is |-> imm_to_rax(e.cond, stack) \o if_check("rax")
                        \o <<Mov(Reg("rdx"), Imm(SNAKE_FLS)),
                             Bin("Cmp", Reg("rax"), Reg("rdx")),
                             Jump("Je", els_label)>>
                        \o t.is
                        \o <<Jump("Jmp", done_label), Label(els_label)>>
                        \o el.is
                        \o <<Label(done_label)>>,
                 c |-> el.c, stack |-> el.stack]

\* compile_to_instrs_inner giving a Let the offset of the last slot in use
compile_to_instrs_inner_reuse(e, counter, max_stack, stack) ==
    CASE e.tag = "Imm" -> [is |-> imm_to_rax(e.imm, stack), c |-> counter, stack |-> stack]
      [] e.tag = "Prim" ->
            LET r == compile_prim(e.op, e.imms, counter, max_stack, stack)
            IN  [is |-> r.is, c |-> r.c, stack |-> stack]
      [] e.tag = "Let" ->
            LET b == compile_to_instrs_inner(e.bound_exp, counter, max_stack, stack)
                offset == IF b.stack = <<>> THEN 8 ELSE Len(b.stack) * 8
                r == compile_to_instrs_inner(e.body, b.c, max_stack,
                                             Append(b.stack, <<e.var, offset>>))
            IN  [is |-> b.is \o <<Mov(MemRef(offset), Reg("rax"))>> \o r.is,
                 c |-> r.c, stack |-> r.stack]
      [] e.tag = "If" ->
            LET els_label == "else_" \o ToString(counter + 1)
                done_label == "done_" \o ToString(counter + 1)
                t == compile_to_instrs_inner(e.thn, counter + 1, max_stack, stack)
                el == compile_to_instrs_inner(e.els, t.c, max_stack, stack)
            IN  [is |-> imm_to_rax(e.cond, stack) \o if_check("rax")
                        \o <<Mov(Reg("rdx"), Imm(SNAKE_FLS)),
                             Bin("Cmp", Reg("rax"), Reg("rdx")),
                             Jump("Je", els_label)>>
                        \o t.is
                        \o <<Jump("Jmp", done_label), Label(els_label)>>
                        \o el.is
                        \o <<Label(done_label)>>,
                 c |-> el.c, stack |-> el.stack]

\* The result is [is, c, stack]: the instructions, the counter and the slot map
\* (stack is a &mut Vec, so the callee's pushes are the caller's) after the call.
compile_to_instrs_inner(e, counter, max_stack, stack) ==
    CASE e.tag = "Imm" -> [is |-> imm_to_rax(e.imm, stack), c |-> counter, stack |-> stack]
      [] e.tag = "Prim" ->
            LET r == compile_prim(e.op, e.imms, counter, max_stack, stack)
            IN  [is |-> r.is, c |-> r.c, stack |-> stack]
      [] e.tag = "Let" ->
            LET b == compile_to_instrs_inner(e.bound_exp, counter, max_stack, stack)
                offset == (Len(b.stack) + 1) * 8
                r == compile_to_instrs_inner(e.body, b.c, max_stack,
                                             Append(b.stack, <<e.var, offset>>))
            IN  [is |-> b.is \o <<Mov(MemRef(offset), Reg("rax"))>> \o r.is,
                 c |-> r.c, stack |-> r.stack]
      [] e.tag = "If" ->
            LET els_label == "else_" \o ToString(counter + 1)
                done_label == "done_" \o ToString(counter + 1)
                t == compile_to_instrs_inner(e.thn, counter + 1, max_stack, stack)
                el == compile_to_instrs_inner(e.els, t.c, max_stack, stack)
            IN  [is |-> imm_to_rax(e.cond, stack) \o if_check("rax")
                        \o <<Mov(Reg("rdx"), Imm(SNAKE_FLS)),
                             Bin("Cmp", Reg("rax"), Reg("rdx")),
                             Jump("Je", els_label)>>
                        \o t.is
                        \o <<Jump("Jmp", done_label), Label(els_label)>>
                        \o el.is
                        \o <<Label(done_label)>>,
                 c |-> el.c, stack |-> el.stack]

compile_to_instrs(e, max_stack) ==
    compile_to_instrs_inner(e, 0, max_stack, <<>>).is \o <<Ret>>

RECURSIVE space_needed(_)
\* space_needed without the step that makes the number of words odd
space_needed_no_odd(e) ==
    LET stack == CASE e.tag = "Let" -> space_needed(e.bound_exp) + space_needed(e.body) + 1
                   [] e.tag = "Imm" -> 0
                   [] e.tag = "Prim" -> 0
                   [] e.tag = "If" ->
                        IF space_needed(e.thn) >= space_needed(e.els)
                        THEN space_needed(e.thn) ELSE space_needed(e.els)
    IN  stack * 8

\* space_needed rounding the word count up to an even number of words
space_needed_even(e) ==
    LET stack == CASE e.tag = "Let" -> space_needed(e.bound_exp) + space_needed(e.body) + 1
                   [] e.tag = "Imm" -> 0
                   [] e.tag = "Prim" -> 0
                   [] e.tag = "If" ->
                        IF space_needed(e.thn) >= space_needed(e.els)
                        THEN space_needed(e.thn) ELSE space_needed(e.els)
    IN  (IF stack % 2 = 0 THEN stack + 2 ELSE stack + 1) * 8

space_needed(e) ==
    LET stack == CASE e.tag = "Let" -> space_needed(e.bound_exp) + space_needed(e.body) + 1
                   [] e.tag = "Imm" -> 0
                   [] e.tag = "Prim" -> 0
                   [] e.tag = "If" ->
                        IF space_needed(e.thn) >= space_needed(e.els)
                        THEN space_needed(e.thn) ELSE space_needed(e.els)
    IN  (IF stack % 2 = 0 THEN stack + 1 ELSE stack) * 8

error_handle_instr(e) ==
    LET stack == space_needed(e)
        handler(l, code) ==
            <<Label(l), Mov(Reg("rdi"), Imm(code)), Mov(Reg("rsi"), Reg("rax")),
              Bin("Sub", Reg("rsp"), Imm(stack)), Jump("Call", SNAKE_ERROR)>>
    IN  handler(ARITH_ERROR, 0) \o handler(CMP_ERROR, 1) \o handler(OVERFLOW, 2)
        \o handler(IF_ERROR, 3) \o handler(LOGIC_ERROR, 4)

\* A failed get(stack, ..).unwrap() while generating code
HasNoSlot(is) ==
    \E i \in DOMAIN is :
        /\ is[i].op \notin {"Label", "Ret", "Je", "Jne", "Jo", "Jmp", "Call"}
        /\ \/ (is[i].src.k = "mem" /\ is[i].src.offset = NoSlot)
           \/ (is[i].dst.k = "mem" /\ is[i].dst.offset = NoSlot)

\* pub fn compile_to_string.  The result is Ok (the emitted program: the error
\* trampolines, the label start_here and the main instructions), Err (of
\* check_prog) or a panic; passes lists the passes that were entered.
compile_to_string(p) ==
    LET chk == check_prog(p)
        unique_p == uniquify(p, EmptyMap, 0)
        sq == sequentialize(p, 0)
        max_stack == space_needed(sq.e)
        main_is == compile_to_instrs(sq.e, max_stack)
    IN  IF ~chk.ok THEN [kind |-> "Err", err |-> chk.err, passes |-> <<"check_prog">>]
        ELSE IF ~unique_p.ok
             THEN [kind |-> "Panic", panic |-> unique_p.panic,
                   passes |-> <<"check_prog", "uniquify">>]
        ELSE IF ~sq.ok
             THEN [kind |-> "Panic", panic |-> sq.panic,
                   passes |-> <<"check_prog", "uniquify", "sequentialize">>]
        ELSE IF HasNoSlot(main_is)
             THEN [kind |-> "Panic", panic |-> "get(stack, ..).unwrap()",
                   passes |-> <<"check_prog", "uniquify", "sequentialize",
                                "space_needed", "compile_to_instrs">>]
        ELSE [kind |-> "Ok",
              asm |-> error_handle_instr(sq.e) \o <<Label("start_here")>> \o main_is,
              seq |-> sq.e, max_stack |-> max_stack,
              passes |-> <<"check_prog", "uniquify", "sequentialize",
                           "space_needed", "compile_to_instrs">>]

(***************************************************************************)
(* The emitted code on the machine, with the runtime of runtime/stub.rs.   *)
(* A register or a memory cell nobody wrote holds UNDEF; reading it gives  *)
(* any of JunkWords.                                                       *)
(***************************************************************************)
UNDEF == 0 - 1
JunkWords == {Word(2), SNAKE_FLS, 5}
ValueRegs == {"rax", "rdx", "rcx", "rdi", "rsi"}

\* rsp on entry to start_here: the runtime's call left it at 8 modulo 16
EntryRsp == 16 * 4096 + 8

\* The address of [rsp + offset], as instrs_to_string prints a MemRef
MemAddr(rsp, offset) == rsp + offset

RECURSIVE BitW(_, _, _, _)
\* Bitwise and / or / xor of two words of n bits
BitW(o, a, b, n) ==
    IF n = 0 THEN 0
    ELSE LET x == a % 2
             y == b % 2
             z == CASE o = "And" -> IF x = 1 /\ y = 1 THEN 1 ELSE 0
                    [] o = "Or" -> IF x = 1 \/ y = 1 THEN 1 ELSE 0
                    [] o = "Xor" -> IF x # y THEN 1 ELSE 0
         IN  z + 2 * BitW(o, a \div 2, b \div 2, n - 1)

InRange64(i) == I64_MIN <= i /\ i <= I64_MAX

RECURSIVE LowerHex(_)
\* format!("{:x}", x)
LowerHex(x) ==
    LET digit == <<"0", "1", "2", "3", "4", "5", "6", "7",
                   "8", "9", "a", "b", "c", "d", "e", "f">>[(x % 16) + 1]
    IN  IF x < 16 THEN digit ELSE LowerHex(x \div 16) \o digit

\* stub.rs: sprint_snake_val
sprint_snake_val(x) ==
    IF x % 2 = 0 THEN ToString(Signed(x) \div 2)
    ELSE IF x = SNAKE_TRU THEN "true"
    ELSE IF x = SNAKE_FLS THEN "false"
    ELSE "Invalid snake value 0x" \o LowerHex(x)

\* The index of the instruction Label(l)
FindLabel(asm, l) ==
    CHOOSE i \in DOMAIN asm :
        /\ asm[i] = Label(l)
        /\ \A j \in 1..(i - 1) : asm[j] # Label(l)

InitMachine(asm) ==
    [ip |-> FindLabel(asm, "start_here"),
     regs |-> [r \in ValueRegs |-> UNDEF],
     rsp |-> EntryRsp,
     mem |-> <<>>,
     zf |-> FALSE, of |-> FALSE,
     out |-> <<>>,
     status |-> "running",
     code |-> UNDEF, val |-> UNDEF]

\* The value of an operand; nd.junk stands for what an unwritten place holds
ReadArg(m, a, nd) ==
    CASE a.k = "imm" -> Word(a.v)
      [] a.k = "reg" -> IF m.regs[a.r] = UNDEF THEN nd.junk ELSE m.regs[a.r]
      [] a.k = "mem" ->
            LET addr == MemAddr(m.rsp, a.offset)
            IN  IF addr \in DOMAIN m.mem THEN m.mem[addr] ELSE nd.junk

\* One arithmetic or logic instruction on a value register: the result, OF and ZF
Alu(o, a, b, nd) ==
    CASE o = "Add" -> [res |-> Word(a + b), of |-> ~InRange64(Signed(a) + Signed(b)),
                       zf |-> Word(a + b) = 0]
      [] o \in {"Sub", "Cmp"} ->
                      [res |-> Word(a - b), of |-> ~InRange64(Signed(a) - Signed(b)),
                       zf |-> a = b]
      [] o = "IMul" -> [res |-> Word(Signed(a) * Signed(b)),
                        of |-> ~InRange64(Signed(a) * Signed(b)),
                        zf |-> nd.flag]
      [] o \in {"And", "Or", "Xor"} ->
                      [res |-> BitW(o, a, b, Bits), of |-> FALSE,
                       zf |-> BitW(o, a, b, Bits) = 0]
      [] o = "Shl" -> [res |-> Word(a * 2^b), of |-> IF b = 1 THEN Signed(Word(a * 2)) # Signed(a) * 2 ELSE nd.flag,
                       zf |-> Word(a * 2^b) = 0]
      [] o = "Sar" -> [res |-> Word(Signed(a) \div 2^b), of |-> IF b = 1 THEN FALSE ELSE nd.flag,
                       zf |-> Word(Signed(a) \div 2^b) = 0]

\* The machine after the instruction at m.ip
ExecInstr(asm, m, nd) ==
    LET i == asm[m.ip]
        next == [m EXCEPT !.ip = m.ip + 1]
    IN  CASE i.op = "Label" -> next
          [] i.op = "Mov" ->
                LET v == ReadArg(m, i.src, nd)
                IN  IF i.dst.k = "reg"
                    THEN [next EXCEPT !.regs[i.dst.r] = v]
                    ELSE [next EXCEPT !.mem = Insert(m.mem, MemAddr(m.rsp, i.dst.offset), v)]
          [] i.op \in {"Add", "Sub", "IMul", "And", "Or", "Xor", "Shl", "Sar", "Cmp"} ->
                IF i.dst.r = "rsp"
                THEN [next EXCEPT !.rsp = IF i.op = "Sub" THEN m.rsp - i.src.v ELSE m.rsp + i.src.v,
                                  !.zf = nd.flag, !.of = nd.flag]
                ELSE LET r == Alu(i.op, ReadArg(m, i.dst, nd), ReadArg(m, i.src, nd), nd)
                     IN  IF i.op = "Cmp"
                         THEN [next EXCEPT !.zf = r.zf, !.of = r.of]
                         ELSE [next EXCEPT !.regs[i.dst.r] = r.res, !.zf = r.zf, !.of = r.of]
          [] i.op = "Je" -> IF m.zf THEN [m EXCEPT !.ip = FindLabel(asm, i.label)] ELSE next
          [] i.op = "Jne" -> IF ~m.zf THEN [m EXCEPT !.ip = FindLabel(asm, i.label)] ELSE next
          [] i.op = "Jo" -> IF m.of THEN [m EXCEPT !.ip = FindLabel(asm, i.label)] ELSE next
          [] i.op = "Jmp" -> [m EXCEPT !.ip = FindLabel(asm, i.label)]
          [] i.op = "Call" ->
                IF i.label = "print_snake_val"
                THEN \* stub.rs print_snake_val: prints rdi and returns it; the callee
                     \* owns the caller-saved registers and the memory below rsp
                     LET v == ReadArg(m, Reg("rdi"), nd)
                     IN  [next EXCEPT !.out = Append(m.out, sprint_snake_val(v)),
                                      !.regs = [r \in ValueRegs |-> IF r = "rax" THEN v ELSE UNDEF],
                                      !.mem = [a \in {x \in DOMAIN m.mem : x >= m.rsp} |-> m.mem[a]],
                                      !.zf = nd.flag, !.of = nd.flag]
                ELSE \* stub.rs snake_error: reports rdi and rsi and exits with status 1
                     [m EXCEPT !.status = "trapped",
                               !.code = ReadArg(m, Reg("rdi"), nd),
                               !.val = ReadArg(m, Reg("rsi"), nd)]
          [] i.op = "Ret" ->
                \* back in stub.rs main, which prints the value start_here returned
                IF m.rsp = EntryRsp
                THEN LET v == ReadArg(m, Reg("rax"), nd)
                     IN  [m EXCEPT !.status = "returned", !.val = v,
                                   !.out = Append(m.out, sprint_snake_val(v))]
                ELSE [m EXCEPT !.status = "crashed"]

NdChoices == [junk : JunkWords, flag : BOOLEAN]

(***************************************************************************)
(* interp.rs: the reference interpreter, on the expressions without        *)
(* functions (closures and Stack::CallArgs are not part of the model).     *)
(* A result is [ok, v, out] or [ok, err, out]; out is what was written.    *)
(***************************************************************************)
SnakeNum(i) == [t |-> "Num", n |-> i]
SnakeBool(v) == [t |-> "Bool", b |-> v]

\* impl Display for SnakeVal
Display(v) == IF v.t = "Num" THEN ToString(v.n) ELSE IF v.b THEN "true" ELSE "false"

ExpectedNum(w) == [variant |-> "ExpectedNum", who |-> w]
ExpectedBool(w) == [variant |-> "ExpectedBool", who |-> w]
InterpOverflow == [variant |-> "Overflow"]

MAX_INT == 2^(Bits - 2) - 1
MIN_INT == -(2^(Bits - 2))
out_of_bounds(n) == n > MAX_INT \/ n < MIN_INT

\* fn snake_arith; exact is the mathematical result of the overflowing_ operation
snake_arith(v1, v2, op) ==
    IF v1.t # "Num" \/ v2.t # "Num" THEN Err(ExpectedNum("arithmetic"))
    ELSE LET exact == CASE op = "add" -> v1.n + v2.n
                        [] op = "sub" -> v1.n - v2.n
                        [] op = "mul" -> v1.n * v2.n
             n3 == Signed(Word(exact))
             overflow == ~InRange64(exact)
         IN  IF overflow \/ out_of_bounds(n3) THEN Err(InterpOverflow)
             ELSE [ok |-> TRUE, v |-> SnakeNum(n3)]

snake_log(v1, v2, op) ==
    IF v1.t # "Bool" \/ v2.t # "Bool" THEN Err(ExpectedBool("logic"))
    ELSE [ok |-> TRUE, v |-> SnakeBool(IF op = "And" THEN v1.b /\ v2.b ELSE v1.b \/ v2.b)]

snake_cmp(v1, v2, op) ==
    IF v1.t # "Num" \/ v2.t # "Num" THEN Err(ExpectedNum("comparison"))
    ELSE [ok |-> TRUE,
          v |-> SnakeBool(CASE op = "Lt" -> v1.n < v2.n
                            [] op = "Le" -> v1.n <= v2.n
                            [] op = "Gt" -> v1.n > v2.n
                            [] op = "Ge" -> v1.n >= v2.n)]

equal_snake_val(v1, v2) ==
    IF v1.t = "Bool" /\ v2.t = "Bool" THEN v1.b = v2.b
    ELSE IF v1.t = "Num" /\ v2.t = "Num" THEN v1.n = v2.n
    ELSE FALSE

\* fn interpret_prim1, without Prim::Print (which writes: see machine)
interpret_prim1(p, v) ==
    CASE p = "Add1" -> snake_arith(v, SnakeNum(1), "add")
      [] p = "Sub1" -> snake_arith(v, SnakeNum(1), "sub")
      [] p = "Not" -> IF v.t # "Bool" THEN Err(ExpectedBool("logic"))
                      ELSE [ok |-> TRUE, v |-> SnakeBool(~v.b)]
      [] p = "IsBool" -> [ok |-> TRUE, v |-> SnakeBool(v.t = "Bool")]
      [] p = "IsNum" -> [ok |-> TRUE, v |-> SnakeBool(v.t = "Num")]
      [] p = "Print" -> [ok |-> TRUE, v |-> v]

interpret_prim2(p, v1, v2) ==
    CASE p = "Add" -> snake_arith(v1, v2, "add")
      [] p = "Sub" -> snake_arith(v1, v2, "sub")
      [] p = "Mul" -> snake_arith(v1, v2, "mul")
      [] p \in {"And", "Or"} -> snake_log(v1, v2, p)
      [] p \in {"Lt", "Le", "Gt", "Ge"} -> snake_cmp(v1, v2, p)
      [] p = "Eq" -> [ok |-> TRUE, v |-> SnakeBool(equal_snake_val(v1, v2))]
      [] p = "Neq" -> [ok |-> TRUE, v |-> SnakeBool(~equal_snake_val(v1, v2))]

WithOut(r, out) == [x \in DOMAIN r \cup {"out"} |-> IF x = "out" THEN out ELSE r[x]]

RECURSIVE env_get(_, _, _)
\* fn get (interp.rs): the newest binding of x among the first i of env
env_get(env, x, i) ==
    IF i < 1 THEN [some |-> FALSE]
    ELSE IF env[i][1] = x THEN [some |-> TRUE, v |-> env[i][2]]
    ELSE env_get(env, x, i - 1)

RECURSIVE machine_eval(_, _, _)
RECURSIVE machine_let(_, _, _, _, _)

\* Stack::Let: the bindings from index i on, then the body
machine_let(bindings, i, body, env, out) ==
    IF i > Len(bindings) THEN machine_eval(body, env, out)
    ELSE LET r == machine_eval(bindings[i][2], env, out)
         IN  IF ~r.ok THEN r
             ELSE machine_let(bindings, i + 1, body,
                              Append(env, <<bindings[i][1], r.v>>), r.out)

\* fn machine, as the value (or error) of e in env and the lines written;
\* env is the list of (name, value), the newest last
machine_eval(e, env, out) ==
    CASE e.tag = "Num" -> [ok |-> TRUE, v |-> SnakeNum(e.n), out |-> out]
      [] e.tag = "Bool" -> [ok |-> TRUE, v |-> SnakeBool(e.b), out |-> out]
      [] e.tag = "Var" ->
            IF ~env_get(env, e.name, Len(env)).some
            THEN WithOut(Err([variant |-> "panic"]), out)
            ELSE [ok |-> TRUE, v |-> env_get(env, e.name, Len(env)).v, out |-> out]
      [] e.tag = "Prim" ->
            IF e.op \in Prims1 THEN
                LET a == machine_eval(e.exps[1], env, out)
                IN  IF ~a.ok THEN a
                    ELSE WithOut(interpret_prim1(e.op, a.v),
                                 IF e.op = "Print" THEN Append(a.out, Display(a.v)) ELSE a.out)
            ELSE
                LET a == machine_eval(e.exps[1], env, out)
                IN  IF ~a.ok THEN a
                    ELSE LET b == machine_eval(e.exps[2], env, a.out)
                         IN  IF ~b.ok THEN b
                             ELSE WithOut(interpret_prim2(e.op, a.v, b.v), b.out)
      [] e.tag = "Let" -> machine_let(e.bindings, 1, e.body, env, out)
      [] e.tag = "If" ->
            LET c == machine_eval(e.cond, env, out)
            IN  IF ~c.ok THEN c
                ELSE IF c.v.t # "Bool" THEN WithOut(Err(ExpectedBool("if")), c.out)
                ELSE IF c.v.b THEN machine_eval(e.thn, env, c.out)
                ELSE machine_eval(e.els, env, c.out)

\* pub fn prog: Stack::Done prints the value of the program
interp_prog(p) ==
    LET r == machine_eval(p, <<>>, <<>>)
    IN  IF ~r.ok THEN r ELSE [r EXCEPT !.out = Append(r.out, Display(r.v))]

(***************************************************************************)
(* lambda_lift.rs: its own uniquify, search_unbound, rewrite_params,       *)
(* lambda_lift_inner and lambda_lift.  The iteration order of a HashSet or *)
(* a HashMap (std RandomState) is not fixed by the program: it is the      *)
(* parameter order, a sequence holding every name once.                    *)
(***************************************************************************)
RECURSIVE ll_uniquify(_, _, _)
RECURSIVE ll_uniquify_exps(_, _, _, _, _)
RECURSIVE ll_uniquify_bindings(_, _, _, _, _)
RECURSIVE ll_uniquify_funnames(_, _, _, _)
RECURSIVE ll_uniquify_params(_, _, _, _)
RECURSIVE ll_uniquify_decls(_, _, _, _, _, _)

\* subjects.iter().map(|s| uniquify(s, mapping, counter)).collect()
ll_uniquify_exps(exps, i, mapping, counter, acc) ==
    IF i > Len(exps) THEN [ok |-> TRUE, es |-> acc, c |-> counter]
    ELSE LET r == ll_uniquify(exps[i], mapping, counter)
         IN  IF ~r.ok THEN r
             ELSE ll_uniquify_exps(exps, i + 1, mapping, r.c, Append(acc, r.e))

\* Exp::Let: the closure mapped over the bindings
ll_uniquify_bindings(bindings, i, scoped_mapping, counter, acc) ==
    IF i > Len(bindings) THEN [ok |-> TRUE, bs |-> acc, m |-> scoped_mapping, c |-> counter]
    ELSE LET var == bindings[i][1]
             value == bindings[i][2]
             new_var == ToString(counter + 1)
             r == ll_uniquify(value, scoped_mapping, counter + 1)
         IN  IF ~r.ok THEN r
             ELSE ll_uniquify_bindings(bindings, i + 1, Insert(scoped_mapping, var, new_var),
                                       r.c, Append(acc, <<new_var, r.e>>))

\* Exp::FunDefs: the first loop, a fresh name for every function of the group
ll_uniquify_funnames(decls, i, scoped_mapping, counter) ==
    IF i > Len(decls) THEN [m |-> scoped_mapping, c |-> counter]
    ELSE ll_uniquify_funnames(decls, i + 1,
                              Insert(scoped_mapping, decls[i].name, ToString(counter + 1)),
                              counter + 1)

\* Exp::FunDefs: the loop over decl.parameters that fills func_scope_map
ll_uniquify_params(parameters, i, func_scope_map, counter) ==
    IF i > Len(parameters) THEN [m |-> func_scope_map, c |-> counter]
    ELSE ll_uniquify_params(parameters, i + 1,
                            Insert(func_scope_map, parameters[i], ToString(counter + 1)),
                            counter + 1)

\* Exp::FunDefs: the second loop over the declarations; each declaration's
\* body field is uniquify(&body, &func_scope_map, ..) of the group's
\* trailing body
ll_uniquify_decls(decls, i, scoped_mapping, body, counter, uniq_decls) ==
    IF i > Len(decls) THEN [ok |-> TRUE, ds |-> uniq_decls, c |-> counter]
    ELSE LET fs == ll_uniquify_params(decls[i].parameters, 1, scoped_mapping, counter)
             r == ll_uniquify(body, fs.m, fs.c)
         IN  IF ~r.ok THEN r
             ELSE ll_uniquify_decls(decls, i + 1, scoped_mapping, body, r.c,
                      Append(uniq_decls,
                             [name |-> scoped_mapping[decls[i].name],
                              parameters |-> [k \in DOMAIN decls[i].parameters |->
                                                 fs.m[decls[i].parameters[k]]],
                              body |-> r.e, ann |-> <<>>]))

ll_uniquify(e, mapping, counter) ==
    CASE e.tag = "Let" ->
            LET bs == ll_uniquify_bindings(e.bindings, 1, mapping, counter, <<>>)
            IN  IF ~bs.ok THEN bs
                ELSE LET b == ll_uniquify(e.body, bs.m, bs.c)
                     IN  IF ~b.ok THEN b
                         ELSE [ok |-> TRUE, e |-> Let(bs.bs, b.e), c |-> b.c]
      [] e.tag = "FunDefs" ->
            LET fn == ll_uniquify_funnames(e.decls, 1, mapping, counter)
                ds == ll_uniquify_decls(e.decls, 1, fn.m, e.body, fn.c, <<>>)
            IN  IF ~ds.ok THEN ds
                ELSE LET b == ll_uniquify(e.body, fn.m, ds.c)
                     IN  IF ~b.ok THEN b
                         ELSE [ok |-> TRUE, e |-> FunDefs(ds.ds, b.e), c |-> b.c]
      [] e.tag = "Var" ->
            IF e.name \notin DOMAIN mapping THEN Panic("uniquify: mapping[v]")
            ELSE [ok |-> TRUE, e |-> Var(mapping[e.name]), c |-> counter]
      [] e.tag = "Num" -> [ok |-> TRUE, e |-> Num(e.n), c |-> counter]
      [] e.tag = "Bool" -> [ok |-> TRUE, e |-> Bool(e.b), c |-> counter]
      [] e.tag = "Prim" ->
            LET r == ll_uniquify_exps(e.exps, 1, mapping, counter, <<>>)
            IN  IF ~r.ok THEN r
                ELSE [ok |-> TRUE,
                      e |-> [tag |-> "Prim", op |-> e.op, exps |-> r.es, ann |-> <<>>],
                      c |-> r.c]
      [] e.tag = "If" ->
            LET r1 == ll_uniquify(e.cond, mapping, counter)
            IN  IF ~r1.ok THEN r1
                ELSE LET r2 == ll_uniquify(e.thn, mapping, r1.c)
                     IN  IF ~r2.ok THEN r2
                         ELSE LET r3 == ll_uniquify(e.els, mapping, r2.c)
                              IN  IF ~r3.ok THEN r3
                                  ELSE [ok |-> TRUE, e |-> If(r1.e, r2.e, r3.e), c |-> r3.c]
      [] e.tag = "Call" ->
            LET r == ll_uniquify_exps(e.params, 1, mapping, counter, <<>>)
            IN  IF ~r.ok THEN r
                ELSE IF e.func \notin DOMAIN mapping THEN Panic("uniquify: mapping[func]")
                ELSE [ok |-> TRUE, e |-> Call(mapping[e.func], r.es), c |-> r.c]

RECURSIVE search_unbound(_, _, _)
RECURSIVE search_unbound_exps(_, _, _, _)
RECURSIVE search_unbound_bindings(_, _, _, _)
RECURSIVE search_unbound_decls(_, _, _, _)

\* for exp in exps { search_unbound(exp, locals, unbound) }
search_unbound_exps(exps, i, locals, unbound) ==
    IF i > Len(exps) THEN [locals |-> locals, unbound |-> unbound]
    ELSE LET r == search_unbound(exps[i], locals, unbound)
         IN  search_unbound_exps(exps, i + 1, r.locals, r.unbound)

\* Exp::Let: the name goes into locals before its value is searched
search_unbound_bindings(bindings, i, locals, unbound) ==
    IF i > Len(bindings) THEN [locals |-> locals, unbound |-> unbound]
    ELSE LET r == search_unbound(bindings[i][2], locals \cup {bindings[i][1]}, unbound)
         IN  search_unbound_bindings(bindings, i + 1, r.locals, r.unbound)

\* Exp::FunDefs: the bodies of the declarations, parameters not added
search_unbound_decls(decls, i, locals, unbound) ==
    IF i > Len(decls) THEN [locals |-> locals, unbound |-> unbound]
    ELSE LET r == search_unbound(decls[i].body, locals, unbound)
         IN  search_unbound_decls(decls, i + 1, r.locals, r.unbound)

\* fn search_unbound: the two sets after the call
search_unbound(e, locals, unbound) ==
    CASE e.tag = "Var" ->
            [locals |-> locals,
             unbound |-> IF e.name \notin locals THEN unbound \cup {e.name} ELSE unbound]
      [] e.tag = "Prim" -> search_unbound_exps(e.exps, 1, locals, unbound)
      [] e.tag = "Let" ->
            LET r == search_unbound_bindings(e.bindings, 1, locals, unbound)
            IN  search_unbound(e.body, r.locals, r.unbound)
      [] e.tag = "If" ->
            LET r1 == search_unbound(e.cond, locals, unbound)
                r2 == search_unbound(e.thn, r1.locals, r1.unbound)
            IN  search_unbound(e.els, r2.locals, r2.unbound)
      [] e.tag = "FunDefs" ->
            LET r == search_unbound_decls(e.decls, 1, locals, unbound)
            IN  search_unbound(e.body, r.locals, r.unbound)
      [] e.tag = "Call" -> search_unbound_exps(e.params, 1, locals, unbound)
      [] OTHER -> [locals |-> locals, unbound |-> unbound]

\* The elements of the hash collection s in the order it iterates them
IterOrder(s, order) == SelectSeq(order, LAMBDA x : x \in s)

RECURSIVE rewrite_params(_, _)
RECURSIVE rewrite_params_exps(_, _, _, _)
RECURSIVE rewrite_params_bindings(_, _, _, _)
RECURSIVE rewrite_params_decls(_, _, _, _)

rewrite_params_exps(exps, i, globals, acc) ==
    IF i > Len(exps) THEN [ok |-> TRUE, es |-> acc]
    ELSE LET r == rewrite_params(exps[i], globals)
         IN  IF ~r.ok THEN r ELSE rewrite_params_exps(exps, i + 1, globals, Append(acc, r.e))

rewrite_params_bindings(bindings, i, globals, acc) ==
    IF i > Len(bindings) THEN [ok |-> TRUE, bs |-> acc]
    ELSE LET r == rewrite_params(bindings[i][2], globals)
         IN  IF ~r.ok THEN r
             ELSE rewrite_params_bindings(bindings, i + 1, globals,
                                          Append(acc, <<bindings[i][1], r.e>>))

rewrite_params_decls(decls, i, globals, acc) ==
    IF i > Len(decls) THEN [ok |-> TRUE, ds |-> acc]
    ELSE LET r == rewrite_params(decls[i].body, globals)
         IN  IF ~r.ok THEN r
             ELSE rewrite_params_decls(decls, i + 1, globals,
                      Append(acc, FunDecl(decls[i].name, decls[i].parameters, r.e)))

\* fn rewrite_params: [ok, e], or the panic of globals[func]
rewrite_params(e, globals) ==
    CASE e.tag = "Prim" ->
            LET r == rewrite_params_exps(e.exps, 1, globals, <<>>)
            IN  IF ~r.ok THEN r
                ELSE [ok |-> TRUE,
                      e |-> [tag |-> "Prim", op |-> e.op, exps |-> r.es, ann |-> <<>>]]
      [] e.tag = "Let" ->
            LET bs == rewrite_params_bindings(e.bindings, 1, globals, <<>>)
            IN  IF ~bs.ok THEN bs
                ELSE LET b == rewrite_params(e.body, globals)
                     IN  IF ~b.ok THEN b ELSE [ok |-> TRUE, e |-> Let(bs.bs, b.e)]
      [] e.tag = "If" ->
            LET r1 == rewrite_params(e.cond, globals)
            IN  IF ~r1.ok THEN r1
                ELSE LET r2 == rewrite_params(e.thn, globals)
                     IN  IF ~r2.ok THEN r2
                         ELSE LET r3 == rewrite_params(e.els, globals)
                              IN  IF ~r3.ok THEN r3
                                  ELSE [ok |-> TRUE, e |-> If(r1.e, r2.e, r3.e)]
      [] e.tag = "FunDefs" ->
            LET ds == rewrite_params_decls(e.decls, 1, globals, <<>>)
            IN  IF ~ds.ok THEN ds
                ELSE LET b == rewrite_params(e.body, globals)
                     IN  IF ~b.ok THEN b ELSE [ok |-> TRUE, e |-> FunDefs(ds.ds, b.e)]
      [] e.tag = "Call" ->
            IF e.func \notin DOMAIN globals THEN Panic("rewrite_params: globals[func]")
            ELSE LET ps == globals[e.func].parameters
                     extra == IF Len(ps) > Len(e.params)
                              THEN SubSeq(ps, Len(e.params) + 1, Len(ps)) ELSE <<>>
                 IN  [ok |-> TRUE,
                      e |-> Call(e.func, e.params \o [k \in DOMAIN extra |-> Var(extra[k])])]
      [] OTHER -> [ok |-> TRUE, e |-> e]

RECURSIVE lambda_lift_inner(_, _, _, _)
RECURSIVE lambda_lift_inner_exps(_, _, _, _, _, _)
RECURSIVE lambda_lift_inner_bindings(_, _, _, _, _, _)
RECURSIVE lambda_lift_inner_decls(_, _, _, _, _, _)

lambda_lift_inner_exps(exps, i, globals, force_global, order, acc) ==
    IF i > Len(exps) THEN [es |-> acc, globals |-> globals]
    ELSE LET r == lambda_lift_inner(exps[i], globals, force_global, order)
         IN  lambda_lift_inner_exps(exps, i + 1, r.globals, force_global, order,
                                    Append(acc, r.e))

lambda_lift_inner_bindings(bindings, i, globals, force_global, order, new_bindings) ==
    IF i > Len(bindings) THEN [bs |-> new_bindings, globals |-> globals]
    ELSE LET r == lambda_lift_inner(bindings[i][2], globals, force_global, order)
         IN  lambda_lift_inner_bindings(bindings, i + 1, r.globals, force_global, order,
                                        Append(new_bindings, <<bindings[i][1], r.e>>))

\* Exp::FunDefs: the loop over the declarations.  A declaration that
\* captures nothing stays local; any other goes to globals with the captured
\* names, in the order the HashSet iterates them, after its parameters
lambda_lift_inner_decls(decls, i, globals, force_global, order, new_local_funcs) ==
    IF i > Len(decls) THEN [ds |-> new_local_funcs, globals |-> globals]
    ELSE LET captured == search_unbound(decls[i].body, {}, {}).unbound
         IN  IF captured = {} /\ ~force_global
             THEN lambda_lift_inner_decls(decls, i + 1, globals, force_global, order,
                                          Append(new_local_funcs, decls[i]))
             ELSE lambda_lift_inner_decls(decls, i + 1,
                      Insert(globals, decls[i].name,
                             FunDecl(decls[i].name,
                                     decls[i].parameters \o IterOrder(captured, order),
                                     decls[i].body)),
                      force_global, order, new_local_funcs)

\* fn lambda_lift_inner: the expression and globals after the call
lambda_lift_inner(e, globals, force_global, order) ==
    CASE e.tag = "Prim" ->
            LET r == lambda_lift_inner_exps(e.exps, 1, globals, force_global, order, <<>>)
            IN  [e |-> [tag |-> "Prim", op |-> e.op, exps |-> r.es, ann |-> <<>>],
                 globals |-> r.globals]
      [] e.tag = "Let" ->
            LET bs == lambda_lift_inner_bindings(e.bindings, 1, globals, force_global,
                                                 order, <<>>)
                new_bod == lambda_lift_inner(e.body, bs.globals, force_global, order)
            IN  [e |-> Let(bs.bs, new_bod.e), globals |-> new_bod.globals]
      [] e.tag = "If" ->
            LET r1 == lambda_lift_inner(e.cond, globals, force_global, order)
                r2 == lambda_lift_inner(e.thn, r1.globals, force_global, order)
                r3 == lambda_lift_inner(e.els, r2.globals, force_global, order)
            IN  [e |-> If(r1.e, r2.e, r3.e), globals |-> r3.globals]
      [] e.tag = "FunDefs" ->
            LET ds == lambda_lift_inner_decls(e.decls, 1, globals, force_global, order, <<>>)
                new_body == lambda_lift_inner(e.body, ds.globals, force_global, order)
            IN  IF ds.ds = <<>> THEN new_body
                ELSE [e |-> FunDefs(ds.ds, new_body.e), globals |-> new_body.globals]
      [] e.tag = "Call" ->
            LET r == lambda_lift_inner_exps(e.params, 1, globals, force_global, order, <<>>)
            IN  [e |-> Call(e.func, r.es), globals |-> r.globals]
      [] OTHER -> [e |-> e, globals |-> globals]

RECURSIVE lambda_lift_values(_, _, _, _)
\* globals.values().map(|decl| .. rewrite_params(&decl.body, &globals)).collect()
lambda_lift_values(keys, i, globals, acc) ==
    IF i > Len(keys) THEN [ok |-> TRUE, ds |-> acc]
    ELSE LET decl == globals[keys[i]]
             r == rewrite_params(decl.body, globals)
         IN  IF ~r.ok THEN r
             ELSE lambda_lift_values(keys, i + 1, globals,
                                     Append(acc, FunDecl(decl.name, decl.parameters, r.e)))

\* pub fn lambda_lift: [ok, decls, main], or a panic
lambda_lift(p, order) ==
    LET unique_p == ll_uniquify(p, EmptyMap, 0)
    IN  IF ~unique_p.ok THEN unique_p
        ELSE LET inner == lambda_lift_inner(unique_p.e, EmptyMap, FALSE, order)
                 globals == inner.globals
                 decls == lambda_lift_values(IterOrder(DOMAIN globals, order), 1, globals, <<>>)
                 main == rewrite_params(inner.e, globals)
             IN  IF ~decls.ok THEN decls
                 ELSE IF ~main.ok THEN main
                 ELSE [ok |-> TRUE, decls |-> decls.ds, main |-> main.e]

(***************************************************************************)
(* The programs the compiler is given                                      *)
(***************************************************************************)
\* The examples of the specification and of the test suite
ExFib ==
    FunDefs(<<FunDecl("f", <<"n">>,
                If(Prim2("Lt", Var("n"), Num(2)),
                   Var("n"),
                   Prim2("Add", Call("f", <<Prim2("Sub", Var("n"), Num(1))>>),
                                Call("f", <<Prim2("Sub", Var("n"), Num(2))>>))))>>,
            Call("f", <<Num(10)>>))
ExShadow ==
    Let(<< <<"x", Num(1)>> >>,
        Let(<< <<"y", Let(<< <<"x", Num(2)>> >>, Var("x"))>> >>, Var("x")))
ExPrints == Prim1("Print", Prim2("Add", Prim1("Print", Num(2)), Prim1("Print", Num(4))))

Examples ==
    {Prim1("Add1", Prim1("Add1", Num(2))),
     Let(<< <<"x", Num(3)>> >>,
         Let(<< <<"y", Prim1("Add1", Var("x"))>> >>, Prim2("Add", Var("x"), Var("y")))),
     If(Prim1("IsNum", Num(5)), Bool(TRUE), Bool(FALSE)),
     ExFib,
     Prim2("Add", Num(1), Bool(TRUE)),
     If(Num(5), Num(1), Num(2)),
     Prim2("Add", Num(I63_MAX), Num(1)),
     Let(<< <<"x", Num(1)>>, <<"x", Num(2)>> >>, Var("x")),
     FunDefs(<<FunDecl("f", <<"x">>, Var("x"))>>, Call("f", <<Num(1), Num(2)>>)),
     ExPrints,
     ExShadow,
     Let(<< <<"x", Var("x")>> >>, Var("x")),
     Prim1("Add1", Num(I63_MAX))}

\* Programs for the checker: literals at the ends of the range, names used as
\* variables and as functions, lets, groups of one and two functions, calls
Lits == {I63_MIN - 1, I63_MIN, 1, I63_MAX, I63_MAX + 1}
LeafC == {Num(l) : l \in Lits} \cup {Var(n) : n \in {"x", "y", "f"}}
ArgLists == {<<>>, <<Num(1)>>, <<Num(1), Num(1)>>, <<Var("x")>>, <<Var("y"), Num(I63_MAX + 1)>>}
CallsC == {Call(f, as) : f \in {"f", "g", "x"}, as \in ArgLists}
SmallC == {Num(1), Var("x"), Var("y"), Num(I63_MAX + 1)}
ParamLists == {<<>>, <<"x">>, <<"x", "y">>, <<"x", "x">>}
BodyC == {Num(1), Var("x"), Var("y"), Var("f"), Num(I63_MIN - 1),
          Call("f", <<>>), Call("f", <<Num(1)>>), Call("g", <<>>),
          Prim2("Add", Var("x"), Var("y"))}
Body2 == {Num(1), Var("x"), Var("z"), Call("f", <<>>), Call("g", <<>>), Call("g", <<Num(1)>>)}
Trail2 == {Num(1), Var("y"), Call("f", <<>>), Call("g", <<Num(1)>>)}
TrailN == {Var("x"), Var("f"), Call("f", <<>>), Call("x", <<>>), Call("f", <<Num(1)>>)}

CheckShapes ==
    Examples \cup LeafC \cup CallsC
    \cup {Prim2("Add", a, b) : a \in LeafC, b \in LeafC}
    \cup {Prim2("Add", a, b) : a \in CallsC, b \in SmallC}
    \cup {Let(<< <<n, a>> >>, b) : n \in {"x", "f"}, a \in LeafC \cup CallsC, b \in LeafC \cup CallsC}
    \cup {Let(<< <<n, a>>, <<m, b>> >>, c) :
            n \in {"x", "y"}, m \in {"x", "y"}, a \in SmallC, b \in SmallC, c \in SmallC}
    \cup {If(a, b, c) : a \in SmallC, b \in SmallC, c \in SmallC}
    \cup {FunDefs(<<FunDecl(f, ps, a)>>, b) :
            f \in {"f", "x"}, ps \in ParamLists, a \in BodyC, b \in LeafC \cup CallsC}
    \cup {FunDefs(<<FunDecl(f, ps, a), FunDecl(g, qs, b)>>, c) :
            f \in {"f", "g"}, g \in {"f", "g"}, ps \in {<<>>, <<"x">>}, qs \in {<<>>, <<"x">>},
            a \in Body2, b \in Body2, c \in Trail2}
    \cup {Let(<< <<n, a>> >>, Let(<< <<m, b>> >>, c)) :
            n \in {"x", "y"}, m \in {"x", "y"}, a \in SmallC, b \in SmallC, c \in SmallC}
    \cup {Let(<< <<n, Let(<< <<m, a>> >>, b)>> >>, c) :
            n \in {"x", "y"}, m \in {"x", "y"}, a \in SmallC, b \in SmallC, c \in SmallC}
    \cup {Let(<< <<n, Num(1)>> >>, FunDefs(<<FunDecl(f, ps, b)>>, c)) :
            n \in {"x", "f"}, f \in {"f", "x"}, ps \in {<<>>, <<"x">>},
            b \in {Num(1), Var("x"), Var("f")}, c \in TrailN}
    \cup {FunDefs(<<FunDecl(f, ps, Num(1))>>, Let(<< <<n, b>> >>, c)) :
            f \in {"f", "x"}, ps \in {<<>>, <<"x">>}, n \in {"x", "f"},
            b \in {Num(1), Var("x"), Var("f"), Call("f", <<>>)}, c \in TrailN}

CheckPrograms == {Annotate(e, <<>>) : e \in CheckShapes}

(***************************************************************************)
(* The operations                                                          *)
(***************************************************************************)
Init ==
    /\ prog \in CheckPrograms
    /\ checkRes = NONE
    /\ compRes = NONE
    /\ mach = NONE
    /\ interpRes = NONE
    /\ uniqRes = <<>>
    /\ liftRes = <<>>

\* pub fn check_prog
CheckProg ==
    /\ checkRes = NONE
    /\ checkRes' = check_prog(prog)
    /\ UNCHANGED <<prog, compRes, mach, interpRes, uniqRes, liftRes>>

\* pub fn compile_to_string
CompileToString ==
    /\ compRes = NONE
    /\ compRes' = compile_to_string(prog)
    /\ UNCHANGED <<prog, checkRes, mach, interpRes, uniqRes, liftRes>>

Next == CheckProg \/ CompileToString

Spec == Init /\ [][Next]_vars

(***************************************************************************)
(* Running a compiled program next to the reference interpreter            *)
(***************************************************************************)
\* Programs without functions: every primitive on the values at the ends of
\* the range, prints, conditionals, lets and shadowing lets
LeafR == {Num(I63_MIN), Num(0 - 1), Num(0), Num(1), Num(2), Num(I63_MAX), Bool(TRUE), Bool(FALSE)}
SmallR == {Num(1), Num(I63_MAX), Bool(TRUE)}
CondR == {Bool(TRUE), Bool(FALSE), Num(0), Prim2("Lt", Num(1), Num(2))}
BodyR == {Var("x"), Prim1("Add1", Var("x")), Prim1("Not", Var("x")), Prim1("Print", Var("x")),
          Prim2("Add", Var("x"), Var("x")), Prim2("Eq", Var("x"), Num(1))}

RunShapes ==
    {e \in Examples : ~HasFunctions(e)} \cup LeafR
    \cup {Prim1(op, a) : op \in Prims1, a \in LeafR}
    \cup {Prim2(op, a, b) : op \in Prims2, a \in LeafR, b \in LeafR}
    \cup {Prim2(op, Prim1(q, a), b) :
            op \in {"Add", "Lt", "And", "Eq"}, q \in {"Print", "Add1"}, a \in SmallR, b \in SmallR}
    \cup {Prim2(op, a, Prim1(q, b)) :
            op \in {"Add", "Lt", "And", "Eq"}, q \in {"Print", "Add1"}, a \in SmallR, b \in SmallR}
    \cup {Prim2(op, Prim1("Print", a), Prim1("Print", b)) :
            op \in {"Add", "Lt", "And", "Eq"}, a \in SmallR, b \in SmallR}
    \cup {If(c, t, e) : c \in CondR, t \in SmallR, e \in {Num(2), Prim1("Print", Bool(FALSE))}}
    \cup {If(c, If(d, a, Prim2("Eq", Num(1), a)), If(d, Prim2("Neq", a, Num(2)), a)) :
            c \in {Bool(TRUE), Bool(FALSE)}, d \in {Bool(TRUE), Bool(FALSE)},
            a \in {Num(1), Bool(TRUE)}}
    \cup {Let(<< <<"x", a>> >>, b) : a \in SmallR \cup {Prim1("Print", Num(2))}, b \in BodyR}
    \cup {Let(<< <<"x", a>>, <<"y", b>> >>, Prim2(op, Var("x"), Var("y"))) :
            a \in SmallR, b \in {Var("x"), Num(2), Bool(FALSE)}, op \in {"Sub", "Lt", "Or", "Neq"}}
    \cup {Let(<< <<"x", a>> >>, Let(<< <<"y", Let(<< <<"x", b>> >>, Var("x"))>> >>, c)) :
            a \in SmallR, b \in {Num(2), Bool(FALSE)},
            c \in {Var("x"), Var("y"), Prim2("Add", Var("x"), Var("y"))}}
    \cup {Let(<< <<"x", a>> >>, Let(<< <<"y", If(c, Num(2), Let(<< <<"x", b>> >>, Var("x")))>> >>, d)) :
            a \in SmallR, b \in {Num(2), Bool(FALSE)}, c \in {Bool(TRUE), Bool(FALSE)},
            d \in {Var("x"), Prim2("Add", Var("x"), Var("y"))}}

RunPrograms == {Annotate(e, <<>>) : e \in RunShapes}

InitRun ==
    /\ prog \in RunPrograms
    /\ checkRes = NONE
    /\ compRes = NONE
    /\ mach = NONE
    /\ interpRes = NONE
    /\ uniqRes = <<>>
    /\ liftRes = <<>>

\* stub.rs main calls start_here, the entry of the emitted code
StartHere ==
    /\ compRes # NONE
    /\ compRes.kind = "Ok"
    /\ mach = NONE
    /\ mach' = InitMachine(compRes.asm)
    /\ UNCHANGED <<prog, checkRes, compRes, interpRes, uniqRes, liftRes>>

\* The processor executes one instruction of the emitted code
Step ==
    /\ mach # NONE
    /\ mach.status = "running"
    /\ \E nd \in NdChoices : mach' = ExecInstr(compRes.asm, mach, nd)
    /\ UNCHANGED <<prog, checkRes, compRes, interpRes, uniqRes, liftRes>>

\* interp.rs: pub fn prog
InterpProg ==
    /\ interpRes = NONE
    /\ interpRes' = interp_prog(prog)
    /\ UNCHANGED <<prog, checkRes, compRes, mach, uniqRes, liftRes>>

NextRun == CompileToString \/ StartHere \/ Step \/ InterpProg

SpecRun == InitRun /\ [][NextRun]_vars

(***************************************************************************)
(* lambda_lift.rs on programs with functions: uniquify applied to a        *)
(* program and to its own output, and lambda_lift run MaxRuns times        *)
(***************************************************************************)
MaxRuns == 2

\* Programs for lambda_lift: functions under one or two let-bound names,
\* groups of one and two functions, parameters that shadow a let-bound name
\* or the function, trailing bodies that use the outer names
ParamsL == {<<>>, <<"x">>, <<"z">>, <<"f">>, <<"x", "x">>}
TrailL == {Num(1), Var("x"), Prim2("Add", Var("x"), Var("y")),
           Call("f", <<>>), Call("f", <<Var("y")>>),
           Call("f", <<Call("f", <<Var("y")>>)>>),
           Let(<< <<"z", Var("x")>> >>, Prim2("Add", Var("z"), Var("y")))}
ExNested ==
    Let(<< <<"x", Num(1)>> >>,
        FunDefs(<<FunDecl("f", <<>>, Num(0))>>,
                FunDefs(<<FunDecl("g", <<>>, Num(0))>>, Var("x"))))

LiftShapes ==
    Examples \cup {ExNested}
    \cup {Let(<< <<"x", Num(1)>>, <<"y", Num(2)>> >>, FunDefs(<<FunDecl("f", ps, b)>>, t)) :
            ps \in ParamsL, b \in {Num(0), Var("x")}, t \in TrailL}
    \cup {Let(<< <<"x", Num(1)>> >>,
              FunDefs(<<FunDecl("f", ps, Num(0)), FunDecl("g", qs, Num(0))>>, t)) :
            ps \in {<<>>, <<"x">>}, qs \in {<<>>, <<"z">>},
            t \in {Num(1), Var("x"), Call("g", <<>>), Prim2("Add", Var("x"), Call("f", <<>>))}}
    \cup {FunDefs(<<FunDecl("f", ps, b)>>, t) :
            ps \in ParamsL, b \in {Num(0), Var("f")},
            t \in {Num(1), Call("f", <<>>), Call("f", <<Num(1)>>),
                   Let(<< <<"x", Num(1)>> >>, Var("x"))}}
    \cup {Let(<< <<n, a>> >>, Let(<< <<m, b>> >>, c)) :
            n \in {"x", "y"}, m \in {"x", "y"}, a \in {Num(1)}, b \in SmallC, c \in SmallC}

LiftPrograms == {Annotate(e, <<>>) : e \in LiftShapes}

InitLift ==
    /\ prog \in LiftPrograms
    /\ checkRes = NONE
    /\ compRes = NONE
    /\ mach = NONE
    /\ interpRes = NONE
    /\ uniqRes = <<>>
    /\ liftRes = <<>>

\* lambda_lift.rs: fn uniquify, on the program and then on its own output
Uniquify ==
    /\ Len(uniqRes) < MaxRuns
    /\ uniqRes # <<>> => uniqRes[Len(uniqRes)].ok
    /\ uniqRes' = Append(uniqRes,
                         ll_uniquify(IF uniqRes = <<>> THEN prog ELSE uniqRes[Len(uniqRes)].e,
                                     EmptyMap, 0))
    /\ UNCHANGED <<prog, checkRes, compRes, mach, interpRes, liftRes>>

\* The names lambda_lift puts into a hash collection on p: the keys of
\* globals and the captured names
HashedNames(p) ==
    LET u == ll_uniquify(p, EmptyMap, 0)
        g == lambda_lift_inner(u.e, EmptyMap, FALSE, [k \in 1..u.c |-> ToString(k)]).globals
    IN  IF ~u.ok THEN {}
        ELSE DOMAIN g \cup UNION {{g[f].parameters[i] : i \in DOMAIN g[f].parameters} :
                                    f \in DOMAIN g}

RECURSIVE Orders(_)
\* The iteration orders a run may see: every arrangement of the names
Orders(names) ==
    IF names = {} THEN {<<>>}
    ELSE UNION {{<<x>> \o o : o \in Orders(names \ {x})} : x \in names}

\* lambda_lift.rs: pub fn lambda_lift, one run of it
LambdaLift ==
    /\ Len(liftRes) < MaxRuns
    /\ \E order \in Orders(HashedNames(prog)) :
          liftRes' = Append(liftRes, lambda_lift(prog, order))
    /\ UNCHANGED <<prog, checkRes, compRes, mach, interpRes, uniqRes>>

NextLift == CheckProg \/ CompileToString \/ Uniquify \/ LambdaLift

SpecLift == InitLift /\ [][NextLift]_vars

(***************************************************************************)
(* Properties of the pipeline: compile_to_string and the emitted code      *)
(***************************************************************************)
\* C1: every program that check_prog accepts, programs with function
\* definitions and calls included, is compiled: compile_to_string returns Ok
\* with the assembly text and never panics part-way through the pipeline.
C1_AcceptedCompiles ==
    (checkRes # NONE /\ checkRes.ok /\ compRes # NONE) => compRes.kind = "Ok"

\* The ErrorCode of stub.rs that stands for the same class as an InterpErr
ErrorCode(err) ==
    CASE err = ExpectedNum("arithmetic") -> 0
      [] err = ExpectedNum("comparison") -> 1
      [] err = InterpOverflow -> 2
      [] err = ExpectedBool("if") -> 3
      [] err = ExpectedBool("logic") -> 4
      [] OTHER -> UNDEF

\* C2: for an accepted program without functions, the emitted code ends as
\* the reference interpreter does: it returns the same value after printing
\* the same lines in the same order, or it stops with a run-time error of
\* the same class.
C2_SameOutcome ==
    (mach # NONE /\ mach.status # "running" /\ interpRes # NONE /\ ~HasFunctions(prog)) =>
        IF interpRes.ok
        THEN /\ mach.status = "returned"
             /\ sprint_snake_val(mach.val) = Display(interpRes.v)
             /\ mach.out = interpRes.out
        ELSE /\ mach.status = "trapped"
             /\ mach.code = ErrorCode(interpRes.err)

(***************************************************************************)
(* Properties of check_prog                                                *)
(***************************************************************************)
OutOfRange(n) == n > 2^(Bits - 2) - 1 \/ n < 0 - 2^(Bits - 2)

\* C3: check_prog returns Overflow for a literal n exactly when n > 2^62 - 1
\* or n < -2^62 (the word is scaled to Bits): a program that is one literal
\* is rejected with Overflow of its value and span when out of range and
\* accepted otherwise; every Overflow names the value and the span of an
\* out-of-range literal of the program; no program with such a literal is
\* accepted.
C3_OverflowExactly ==
    checkRes # NONE =>
        /\ prog.tag = "Num" =>
              checkRes = (IF OutOfRange(prog.n) THEN Err(Overflow(prog.n, prog.ann)) ELSE Ok)
        /\ (~checkRes.ok /\ checkRes.err.variant = "Overflow") =>
              \E n \in Nodes(prog) :
                  /\ n.tag = "Num" /\ OutOfRange(n.n)
                  /\ checkRes.err = Overflow(n.n, n.ann)
        /\ (\E n \in Nodes(prog) : n.tag = "Num" /\ OutOfRange(n.n)) => ~checkRes.ok

\* The literal 2^62, alone, was checked and rejected
C3_Witness ==
    /\ prog.tag = "Num" /\ prog.n = 2^(Bits - 2)
    /\ checkRes # NONE /\ ~checkRes.ok

\* The names of a list, with a repetition
HasDuplicate(ps) == \E i, j \in DOMAIN ps : i < j /\ ps[i] = ps[j]

\* C4: when the program is one function f with n distinct parameters whose
\* body is one of its parameters, followed by a call of f with m # n
\* arguments, check_prog returns FunctionCalledWrongArity with
\* correct_arity n, arity_used m and the span of the call.
C4_WrongArity ==
    (/\ checkRes # NONE
     /\ prog.tag = "FunDefs" /\ Len(prog.decls) = 1
     /\ ~HasDuplicate(prog.decls[1].parameters)
     /\ prog.decls[1].body.tag = "Var"
     /\ \E i \in DOMAIN prog.decls[1].parameters :
            prog.decls[1].parameters[i] = prog.decls[1].body.name
     /\ prog.body.tag = "Call" /\ prog.body.func = prog.decls[1].name
     /\ Len(prog.body.params) # Len(prog.decls[1].parameters))
    => checkRes = Err(FunctionCalledWrongArity(prog.decls[1].name,
                                               Len(prog.decls[1].parameters),
                                               Len(prog.body.params), prog.body.ann))

\* C5: every name of a FunDefs group is in scope in the body of every
\* declaration of the group: when the body of the first of two functions is a
\* call, with the right number of arguments, of the second, that call is not
\* reported as UndefinedFunction.
C5_GroupScope ==
    (/\ checkRes # NONE
     /\ prog.tag = "FunDefs" /\ Len(prog.decls) = 2
     /\ prog.decls[1].name # prog.decls[2].name
     /\ prog.decls[1].body.tag = "Call"
     /\ prog.decls[1].body.func = prog.decls[2].name
     /\ Len(prog.decls[1].body.params) = Len(prog.decls[2].parameters))
    => checkRes # Err(UndefinedFunction(prog.decls[2].name, prog.decls[1].body.ann))

\* C6: a program with a function declaration whose parameter list has the
\* same name twice is never accepted, and when that declaration is the first
\* thing check_prog meets the error is DuplicateArgName.
C6_DuplicateArgName ==
    checkRes # NONE =>
        /\ (\E d \in DeclsOf(prog) : HasDuplicate(d.parameters)) => ~checkRes.ok
        /\ (prog.tag = "FunDefs" /\ HasDuplicate(prog.decls[1].parameters)) =>
              (~checkRes.ok /\ checkRes.err.variant = "DuplicateArgName")

\* C7: the value of a let binding is checked without the binding's own name
\* in scope: a program `let n = n in ...` (no outer n) is rejected with
\* UnboundVariable for n at the span of the value, and compile_to_string
\* stops there, running no later pass on it.
C7_LetValueScope ==
    (/\ prog.tag = "Let" /\ Len(prog.bindings) = 1
     /\ prog.bindings[1][2].tag = "Var"
     /\ prog.bindings[1][2].name = prog.bindings[1][1])
    => /\ checkRes # NONE =>
              checkRes = Err(UnboundVariable(prog.bindings[1][1], prog.bindings[1][2].ann))
       /\ compRes # NONE =>
              (compRes.kind = "Err" /\ compRes.passes = <<"check_prog">>)

LetsOf(e) == {n \in Nodes(e) : n.tag = "Let"}
\* The names a binding list binds more than once
DupNames(bs) == {bs[j][1] : j \in {k \in DOMAIN bs : \E i \in 1..(k - 1) : bs[i][1] = bs[k][1]}}
Literal(e) == e.tag = "Bool" \/ (e.tag = "Num" /\ ~OutOfRange(e.n))

\* C8: check_prog returns DuplicateBinding exactly for two bindings of one
\* Let with the same name: every DuplicateBinding carries the span of a Let
\* of the program and a name that this Let binds twice; no program with such
\* a Let is accepted; a program that is a Let binding a name twice, the first
\* value a literal, is rejected with DuplicateBinding of that name at the
\* span of the whole let; a let that rebinds, in its body, the name it binds
\* is accepted.
C8_DuplicateBinding ==
    checkRes # NONE =>
        /\ (~checkRes.ok /\ checkRes.err.variant = "DuplicateBinding") =>
              \E l \in LetsOf(prog) :
                  /\ l.ann = checkRes.err.location
                  /\ checkRes.err.duplicated_name \in DupNames(l.bindings)
        /\ (\E l \in LetsOf(prog) : DupNames(l.bindings) # {}) => ~checkRes.ok
        /\ (/\ prog.tag = "Let" /\ Len(prog.bindings) = 2
            /\ prog.bindings[1][1] = prog.bindings[2][1]
            /\ Literal(prog.bindings[1][2]))
           => checkRes = Err(DuplicateBinding(prog.bindings[1][1], prog.ann))
        /\ (/\ prog.tag = "Let" /\ Len(prog.bindings) = 1 /\ Literal(prog.bindings[1][2])
            /\ prog.body.tag = "Let" /\ Len(prog.body.bindings) = 1
            /\ prog.body.bindings[1][1] = prog.bindings[1][1]
            /\ Literal(prog.body.bindings[1][2])
            /\ prog.body.body.tag = "Var" /\ prog.body.body.name = prog.bindings[1][1])
           => checkRes = Ok

\* `let x = 1, x = 2 in x` was checked and rejected with DuplicateBinding
C8_Witness ==
    /\ prog.tag = "Let" /\ Len(prog.bindings) = 2
    /\ prog.bindings[1][1] = prog.bindings[2][1]
    /\ Literal(prog.bindings[1][2])
    /\ checkRes # NONE /\ ~checkRes.ok /\ checkRes.err.variant = "DuplicateBinding"

\* C9: the innermost binding of a name decides its kind: after one function
\* f (its body a literal), the value of a let binding that is the variable f
\* refers to the function, whatever name the let binds, and check_prog
\* returns FunctionUsedAsValue for f at the span of that variable.
C9_InnermostBinding ==
    (/\ checkRes # NONE
     /\ prog.tag = "FunDefs" /\ Len(prog.decls) = 1
     /\ ~HasDuplicate(prog.decls[1].parameters)
     /\ Literal(prog.decls[1].body)
     /\ prog.body.tag = "Let" /\ Len(prog.body.bindings) = 1
     /\ prog.body.bindings[1][2].tag = "Var"
     /\ prog.body.bindings[1][2].name = prog.decls[1].name)
    => checkRes = Err(FunctionUsedAsValue(prog.decls[1].name, prog.body.bindings[1][2].ann))

\* C10: of several errors check_prog returns the first in a left-to-right
\* walk: when the first declaration of the program repeats a parameter name
\* and the trailing body is an unbound variable, the error returned is not
\* the one of the trailing body, which lies to the right.
C10_FirstError ==
    (/\ checkRes # NONE
     /\ prog.tag = "FunDefs" /\ HasDuplicate(prog.decls[1].parameters)
     /\ prog.body.tag = "Var"
     /\ \A i \in DOMAIN prog.decls : prog.decls[i].name # prog.body.name)
    => checkRes # Err(UnboundVariable(prog.body.name, prog.body.ann))

(***************************************************************************)
(* Properties of the emitted code                                          *)
(***************************************************************************)
ArithOps == {"Add1", "Sub1", "Add", "Sub", "Mul"}
CmpOps == {"Lt", "Gt", "Le", "Ge"}
LogicOps == {"Not", "And", "Or"}

\* A primitive applied to literals
PrimOnLiterals(e) ==
    e.tag = "Prim" /\ \A i \in DOMAIN e.exps : e.exps[i].tag \in {"Num", "Bool"}

\* The exact result, in the integers, of an arithmetic primitive on numbers
MathResult(e) ==
    CASE e.op = "Add1" -> e.exps[1].n + 1
      [] e.op = "Sub1" -> e.exps[1].n - 1
      [] e.op = "Add" -> e.exps[1].n + e.exps[2].n
      [] e.op = "Sub" -> e.exps[1].n - e.exps[2].n
      [] e.op = "Mul" -> e.exps[1].n * e.exps[2].n

\* C11: for Add1, Sub1, Add, Sub and Mul on numbers of [-2^62, 2^62 - 1]
\* the emitted code either goes on with rax = 2 * r, r the exact result and
\* r in [-2^62, 2^62 - 1], or jumps to overflow_error (snake_error is called
\* with code 2), and the latter only when r is out of the range; it never
\* goes on with a wrapped result.
C11_ExactOrOverflow ==
    (/\ mach # NONE
     /\ PrimOnLiterals(prog) /\ prog.op \in ArithOps
     /\ \A i \in DOMAIN prog.exps : prog.exps[i].tag = "Num" /\ ~OutOfRange(prog.exps[i].n))
    => LET r == MathResult(prog)
       IN  /\ mach.status # "crashed"
           /\ (mach.status = "running" /\ compRes.asm[mach.ip] = Ret) =>
                 (~OutOfRange(r) /\ mach.regs["rax"] = Word(2 * r))
           /\ mach.status = "returned" => (~OutOfRange(r) /\ mach.val = Word(2 * r))
           /\ mach.status = "trapped" => (OutOfRange(r) /\ mach.code = 2)

\* add1(2^62 - 1) ran and ended in the overflow trampoline
C11_Witness ==
    /\ prog.tag = "Prim" /\ prog.op = "Add1"
    /\ prog.exps[1].tag = "Num" /\ prog.exps[1].n = 2^(Bits - 2) - 1
    /\ mach # NONE /\ mach.status = "trapped" /\ mach.code = 2

\* A legal tagged value: a number, TRUE or FALSE
LegalValue(w) == w % 2 = 0 \/ w = 2^Bits - 1 \/ w = 2^(Bits - 1) - 1

\* C12: in an execution that does not trap, every value stored to a stack
\* slot and the value in rax at the final ret is a legal tagged value.
C12_TagInvariant ==
    (mach # NONE /\ mach.status # "trapped") =>
        /\ \A a \in DOMAIN mach.mem : LegalValue(mach.mem[a])
        /\ mach.status = "returned" => LegalValue(mach.val)

IsNumLit(e) == e.tag = "Num"
IsBoolLit(e) == e.tag = "Bool"

\* The code snake_error must receive for a primitive on literals or an if
\* with a literal condition (UNDEF: no trap)
ExpectedCode(e) ==
    IF e.tag = "If" THEN (IF IsNumLit(e.cond) THEN 3 ELSE UNDEF)
    ELSE IF e.op \in ArithOps
         THEN IF \E i \in DOMAIN e.exps : IsBoolLit(e.exps[i]) THEN 0
              ELSE IF OutOfRange(MathResult(e)) THEN 2 ELSE UNDEF
    ELSE IF e.op \in CmpOps
         THEN IF \E i \in DOMAIN e.exps : IsBoolLit(e.exps[i]) THEN 1 ELSE UNDEF
    ELSE IF e.op \in LogicOps
         THEN IF \E i \in DOMAIN e.exps : IsNumLit(e.exps[i]) THEN 4 ELSE UNDEF
    ELSE UNDEF

\* An if with a literal condition whose branches are literals or prints
SimpleIf(e) ==
    /\ e.tag = "If" /\ e.cond.tag \in {"Num", "Bool"}
    /\ \A b \in {e.thn, e.els} :
          b.tag \in {"Num", "Bool"} \/ (PrimOnLiterals(b) /\ b.op = "Print")

\* C13: a wrongly typed operand traps with the code of its class (boolean
\* operand of Add1/Sub1/Add/Sub/Mul: 0, of Lt/Gt/Le/Ge: 1, overflow: 2,
\* number as if condition: 3, number operand of Not/And/Or: 4), whichever
\* operand it is, and with operands of the expected types no trap is taken.
C13_TrapCode ==
    (/\ mach # NONE /\ mach.status # "running"
     /\ PrimOnLiterals(prog) \/ SimpleIf(prog))
    => /\ mach.status \in {"returned", "trapped"}
       /\ mach.status = "trapped" <=> ExpectedCode(prog) # UNDEF
       /\ mach.code = ExpectedCode(prog)

\* `1 < true` ran and snake_error received code 1 for the second operand
C13_Witness ==
    /\ prog.tag = "Prim" /\ prog.op = "Lt"
    /\ IsNumLit(prog.exps[1]) /\ IsBoolLit(prog.exps[2])
    /\ mach # NONE /\ mach.status = "trapped" /\ mach.code = 1

\* The tagged word of a literal
LitWord(e) ==
    IF e.tag = "Num" THEN Word(2 * e.n) ELSE IF e.b THEN 2^Bits - 1 ELSE 2^(Bits - 1) - 1

\* The operands of a primitive on literals that fail its type check
IllTyped(e) ==
    {i \in DOMAIN e.exps :
        \/ (e.op \in ArithOps \cup CmpOps /\ IsBoolLit(e.exps[i]))
        \/ (e.op \in LogicOps /\ IsNumLit(e.exps[i]))}

\* C14: when the emitted code calls snake_error for a type error, rsi holds
\* the operand that failed the type check, also when it is the second
\* operand and for Gt and Le, which load their operands swapped.
C14_OffendingValue ==
    (/\ mach # NONE /\ mach.status = "trapped"
     /\ PrimOnLiterals(prog)
     /\ Cardinality(IllTyped(prog)) = 1)
    => \A i \in IllTyped(prog) : mach.val = LitWord(prog.exps[i])

\* C15: rsp is restored: in the main code only the sub before a call of
\* print_snake_val and the add right after it, with the same frame, change
\* rsp; outside such a pair rsp has its value on entry, right after the call
\* returns it is the entry value less the frame, and at the final ret it is
\* the entry value again (the code never returns with another rsp).
C15_RspRestored ==
    LET asm == compRes.asm
        start == FindLabel(asm, "start_here")
        TouchesRsp(i) ==
            /\ asm[i].op \in {"Mov", "Add", "Sub", "IMul", "And", "Or", "Xor", "Shl", "Sar"}
            /\ asm[i].dst = Reg("rsp")
        IsPrintCall(i) == i \in DOMAIN asm /\ asm[i] = Jump("Call", "print_snake_val")
    IN  (compRes # NONE /\ compRes.kind = "Ok") =>
            /\ \A i \in (start + 1)..Len(asm) :
                  TouchesRsp(i) =>
                      \/ /\ asm[i].op = "Sub" /\ IsPrintCall(i + 1)
                         /\ asm[i + 2] = Bin("Add", Reg("rsp"), asm[i].src)
                      \/ /\ asm[i].op = "Add" /\ IsPrintCall(i - 1)
                         /\ asm[i - 2] = Bin("Sub", Reg("rsp"), asm[i].src)
            /\ \A i \in (start + 1)..Len(asm) : IsPrintCall(i) => TouchesRsp(i - 1)
            /\ mach # NONE =>
                  /\ mach.status # "crashed"
                  /\ mach.status = "returned" => mach.rsp = EntryRsp
                  /\ (mach.status = "running" /\ mach.ip > start) =>
                        IF IsPrintCall(mach.ip) \/ IsPrintCall(mach.ip - 1)
                        THEN mach.rsp = EntryRsp - compRes.max_stack
                        ELSE mach.rsp = EntryRsp

\* print(print(2) + print(4)) ran to its ret with rsp as on entry
C15_Witness ==
    /\ prog = Annotate(ExPrints, <<>>)
    /\ mach # NONE /\ mach.status = "returned" /\ mach.rsp = EntryRsp
    /\ Len(mach.out) = 4

RECURSIVE SlotsNeeded(_)
\* The number of stack slots the let-bindings of a sequential expression need
SlotsNeeded(e) ==
    CASE e.tag = "Let" -> SlotsNeeded(e.bound_exp) + SlotsNeeded(e.body) + 1
      [] e.tag = "If" -> IF SlotsNeeded(e.thn) >= SlotsNeeded(e.els)
                         THEN SlotsNeeded(e.thn) ELSE SlotsNeeded(e.els)
      [] OTHER -> 0

AlignUp(n, k) == ((n + k - 1) \div k) * k

\* C16: the frame size the code generator uses (space_needed, passed as
\* max_stack) is align_up(n + 1, 2) * 8 bytes, n the number of slots the
\* let-bindings need, and so a multiple of 16 bytes.
C16_FrameSize ==
    (compRes # NONE /\ compRes.kind = "Ok") =>
        /\ compRes.max_stack = AlignUp(SlotsNeeded(compRes.seq) + 1, 2) * 8
        /\ compRes.max_stack % 16 = 0

\* C16 as the code has it: the frame size is an odd number of 8-byte words,
\* so it is 8 modulo 16 and never a multiple of 16; it has room for the n
\* slots and one more word, and it is one word when there is no let-binding.
C16_FrameSizeOdd ==
    (compRes # NONE /\ compRes.kind = "Ok") =>
        /\ compRes.max_stack % 16 = 8
        /\ compRes.max_stack >= 8 * (SlotsNeeded(compRes.seq) + 1)
        /\ SlotsNeeded(compRes.seq) = 0 => compRes.max_stack = 8

\* A compiled program with two nested let-bindings
C16_Witness ==
    /\ compRes # NONE /\ compRes.kind = "Ok"
    /\ SlotsNeeded(compRes.seq) = 2
    /\ compRes.max_stack % 16 = 8

\* C17: with rsp at 8 modulo 16 on entry to start_here, rsp is a multiple
\* of 16 at every call instruction the emitted code executes: the calls of
\* print_snake_val and the call of snake_error in the error trampolines.
C17_AlignedCalls ==
    (mach # NONE /\ EntryRsp % 16 = 8) =>
        /\ (mach.status = "running" /\ compRes.asm[mach.ip].op = "Call") => mach.rsp % 16 = 0
        /\ mach.status = "trapped" =>
              (compRes.asm[mach.ip] = Jump("Call", "snake_error") /\ mach.rsp % 16 = 0)

\* The machine is about to call print_snake_val with an aligned rsp
C17_Witness ==
    /\ mach # NONE /\ mach.status = "running"
    /\ compRes.asm[mach.ip] = Jump("Call", "print_snake_val")
    /\ mach.rsp % 16 = 0

(***************************************************************************)
(* Properties of uniquify and lambda_lift                                  *)
(***************************************************************************)
\* C18: two runs of lambda_lift on the same program return the same lifted
\* functions in the same order, with each function's captured variables
\* appended to its parameters in the same order.
C18_Deterministic ==
    check_prog(prog).ok => \A i, j \in DOMAIN liftRes : liftRes[i] = liftRes[j]

RECURSIVE Binders(_)
RECURSIVE BindersOfExps(_, _)
RECURSIVE BindersOfBindings(_, _)
RECURSIVE BindersOfDecls(_, _)
\* The binding occurrences of an expression, one entry each: let-bound names,
\* function names and parameters
BindersOfExps(exps, i) ==
    IF i > Len(exps) THEN <<>> ELSE Binders(exps[i]) \o BindersOfExps(exps, i + 1)

BindersOfBindings(bindings, i) ==
    IF i > Len(bindings) THEN <<>>
    ELSE <<bindings[i][1]>> \o Binders(bindings[i][2]) \o BindersOfBindings(bindings, i + 1)

BindersOfDecls(decls, i) ==
    IF i > Len(decls) THEN <<>>
    ELSE <<decls[i].name>> \o decls[i].parameters \o Binders(decls[i].body)
         \o BindersOfDecls(decls, i + 1)

Binders(e) ==
    CASE e.tag = "Prim" -> BindersOfExps(e.exps, 1)
      [] e.tag = "Let" -> BindersOfBindings(e.bindings, 1) \o Binders(e.body)
      [] e.tag = "If" -> Binders(e.cond) \o Binders(e.thn) \o Binders(e.els)
      [] e.tag = "FunDefs" -> BindersOfDecls(e.decls, 1) \o Binders(e.body)
      [] e.tag = "Call" -> BindersOfExps(e.params, 1)
      [] OTHER -> <<>>

AllDistinct(names) == \A i, j \in DOMAIN names : i # j => names[i] # names[j]

\* C19: for an input check_prog accepts, every binding occurrence in the
\* output of uniquify (of lambda_lift.rs, and of compile.rs once the pipeline
\* has run) has a name no other binding occurrence has.
C19_BindersDistinct ==
    check_prog(prog).ok =>
        /\ (uniqRes # <<>> /\ uniqRes[1].ok) => AllDistinct(Binders(uniqRes[1].e))
        /\ compRes # NONE =>
              LET unique_p == uniquify(prog, EmptyMap, 0)
              IN  unique_p.ok => AllDistinct(Binders(unique_p.e))

RECURSIVE Match(_, _)
\* a and b walked in lockstep: whether they have the same shape, and the
\* pairs of names that stand at the same place
MatchAll(as, bs) ==
    IF Len(as) # Len(bs) THEN [same |-> FALSE, pairs |-> {}]
    ELSE [same |-> \A i \in DOMAIN as : Match(as[i], bs[i]).same,
          pairs |-> UNION {Match(as[i], bs[i]).pairs : i \in DOMAIN as}]

Both(r1, r2) == [same |-> r1.same /\ r2.same, pairs |-> r1.pairs \cup r2.pairs]

NamesMatch(ns, ms) ==
    IF Len(ns) # Len(ms) THEN [same |-> FALSE, pairs |-> {}]
    ELSE [same |-> TRUE, pairs |-> {<<ns[i], ms[i]>> : i \in DOMAIN ns}]

Match(a, b) ==
    IF a.tag # b.tag THEN [same |-> FALSE, pairs |-> {}]
    ELSE CASE a.tag = "Num" -> [same |-> a.n = b.n, pairs |-> {}]
           [] a.tag = "Bool" -> [same |-> a.b = b.b, pairs |-> {}]
           [] a.tag = "Var" -> [same |-> TRUE, pairs |-> {<<a.name, b.name>>}]
           [] a.tag = "Prim" ->
                Both([same |-> a.op = b.op, pairs |-> {}], MatchAll(a.exps, b.exps))
           [] a.tag = "Let" ->
                Both(Both(NamesMatch([i \in DOMAIN a.bindings |-> a.bindings[i][1]],
                                     [i \in DOMAIN b.bindings |-> b.bindings[i][1]]),
                          MatchAll([i \in DOMAIN a.bindings |-> a.bindings[i][2]],
                                   [i \in DOMAIN b.bindings |-> b.bindings[i][2]])),
                     Match(a.body, b.body))
           [] a.tag = "If" ->
                Both(Match(a.cond, b.cond), Both(Match(a.thn, b.thn), Match(a.els, b.els)))
           [] a.tag = "FunDefs" ->
                Both(Both(NamesMatch([i \in DOMAIN a.decls |-> a.decls[i].name],
                                     [i \in DOMAIN b.decls |-> b.decls[i].name]),
                          IF Len(a.decls) # Len(b.decls) THEN [same |-> FALSE, pairs |-> {}]
                          ELSE [same |-> \A i \in DOMAIN a.decls :
                                            NamesMatch(a.decls[i].parameters,
                                                       b.decls[i].parameters).same,
                                pairs |-> UNION {NamesMatch(a.decls[i].parameters,
                                                            b.decls[i].parameters).pairs :
                                                 i \in DOMAIN a.decls}]),
                     Both(MatchAll([i \in DOMAIN a.decls |-> a.decls[i].body],
                                   [i \in DOMAIN b.decls |-> b.decls[i].body]),
                          Match(a.body, b.body)))
           [] a.tag = "Call" ->
                Both([same |-> TRUE, pairs |-> {<<a.func, b.func>>}],
                     MatchAll(a.params, b.params))

\* Some bijective renaming of names maps a onto b
Renamable(a, b) ==
    LET m == Match(a, b)
    IN  /\ m.same
        /\ \A p, q \in m.pairs : (p[1] = q[1]) <=> (p[2] = q[2])

\* C20: for a program check_prog accepts, a bijective renaming of the bound
\* names maps uniquify(uniquify(P)) onto uniquify(P), also when a parameter
\* shadows an outer variable.
C20_Idempotent ==
    (/\ check_prog(prog).ok
     /\ Len(uniqRes) = 2 /\ uniqRes[1].ok)
    => /\ uniqRes[2].ok
       /\ Renamable(uniqRes[2].e, uniqRes[1].e)

(***************************************************************************)
(* Properties of the emitted code: side effects, scoping, comparisons,     *)
(* labels and the frame                                                    *)
(***************************************************************************)
\* A binary primitive both of whose operands print a literal
PrintsBoth(e) ==
    /\ e.tag = "Prim" /\ Len(e.exps) = 2
    /\ \A i \in 1..2 : /\ e.exps[i].tag = "Prim" /\ e.exps[i].op = "Print"
                       /\ Literal(e.exps[i].exps[1])

ShownLit(e) == sprint_snake_val(LitWord(e))

\* C21: side effects of operands happen left to right and exactly once.
\* When both operands of a binary primitive print, the first operand's line
\* comes before the second's and both are out before the primitive checks
\* its operands; print leaves in rax the value it printed; the final value
\* is printed last; print(print(2) + print(4)) prints 2, 4, 6 and then 6.
C21_PrintOrder ==
    mach # NONE =>
        /\ PrintsBoth(prog) =>
              LET first == ShownLit(prog.exps[1].exps[1])
                  second == ShownLit(prog.exps[2].exps[1])
              IN  /\ mach.status = "running" =>
                        mach.out \in {<<>>, <<first>>, <<first, second>>}
                  /\ mach.status = "trapped" => mach.out = <<first, second>>
                  /\ mach.status = "returned" =>
                        mach.out = <<first, second, sprint_snake_val(mach.val)>>
                  /\ mach.status # "crashed"
        /\ (prog.tag = "Prim" /\ prog.op = "Print" /\ Literal(prog.exps[1])) =>
              /\ mach.status \in {"running", "returned"}
              /\ mach.status = "returned" =>
                    /\ mach.val = LitWord(prog.exps[1])
                    /\ mach.out = <<ShownLit(prog.exps[1]), ShownLit(prog.exps[1])>>
        /\ (prog = Annotate(ExPrints, <<>>) /\ mach.status = "returned") =>
              mach.out = <<"2", "4", "6", "6">>

\* print(print(2) + print(4)) has run to its end
C21_Witness ==
    /\ prog = Annotate(ExPrints, <<>>)
    /\ mach # NONE /\ mach.status = "returned"
    /\ mach.out = <<"2", "4", "6", "6">>

\* let x = a in let y = (let x = b in x) in x, a and b literals
ShadowedInBound(e) ==
    /\ e.tag = "Let" /\ Len(e.bindings) = 1 /\ Literal(e.bindings[1][2])
    /\ e.body.tag = "Let" /\ Len(e.body.bindings) = 1
    /\ e.body.bindings[1][1] # e.bindings[1][1]
    /\ LET inner == e.body.bindings[1][2]
       IN  /\ inner.tag = "Let" /\ Len(inner.bindings) = 1
           /\ inner.bindings[1][1] = e.bindings[1][1]
           /\ Literal(inner.bindings[1][2])
           /\ inner.body = [tag |-> "Var", name |-> e.bindings[1][1], ann |-> inner.body.ann]
    /\ e.body.body.tag = "Var" /\ e.body.body.name = e.bindings[1][1]

\* C22: the slot map used for the body of a Let is the one in force at the
\* Let extended with its variable only.  A name bound by a let nested inside
\* the bound expression is not visible in the body: in
\* let x = 1 in let y = (let x = 2 in x) in x the final x reads the slot
\* holding 1.
C22_LetScope ==
    (mach # NONE /\ mach.status = "returned" /\ ShadowedInBound(prog)) =>
        mach.val = LitWord(prog.bindings[1][2])

RECURSIVE FunDefsPairs(_, _)
\* The FunDefs nodes of a program, each with the node uniquify made of it:
\* a and its output b walked in lockstep, outside the declarations' bodies
FunDefsPairs(a, b) ==
    IF a.tag # b.tag THEN {}
    ELSE CASE a.tag = "Prim" ->
                UNION {FunDefsPairs(a.exps[i], b.exps[i]) : i \in DOMAIN a.exps \cap DOMAIN b.exps}
           [] a.tag = "Let" ->
                UNION {FunDefsPairs(a.bindings[i][2], b.bindings[i][2]) :
                       i \in DOMAIN a.bindings \cap DOMAIN b.bindings}
                \cup FunDefsPairs(a.body, b.body)
           [] a.tag = "If" ->
                FunDefsPairs(a.cond, b.cond) \cup FunDefsPairs(a.thn, b.thn)
                \cup FunDefsPairs(a.els, b.els)
           [] a.tag = "FunDefs" -> {<<a, b>>} \cup FunDefsPairs(a.body, b.body)
           [] a.tag = "Call" ->
                UNION {FunDefsPairs(a.params[i], b.params[i]) :
                       i \in DOMAIN a.params \cap DOMAIN b.params}
           [] OTHER -> {}

\* Every declaration of the output has the body of the declaration it was
\* made of, with each name replaced by one name
OwnBodies(p, out) ==
    \A pr \in FunDefsPairs(p, out) :
        /\ Len(pr[1].decls) = Len(pr[2].decls)
        /\ \A i \in DOMAIN pr[1].decls :
              LET m == Match(pr[1].decls[i].body, pr[2].decls[i].body)
              IN  /\ m.same
                  /\ \A x, y \in m.pairs : x[1] = y[1] => x[2] = y[2]

\* C23: uniquify renames each function's own body.  In the output the body
\* of declaration d is d's original body with its names replaced, for the
\* uniquify of lambda_lift.rs and, once the pipeline has run, for the
\* uniquify of compile.rs.
C23_OwnBody ==
    check_prog(prog).ok =>
        /\ (uniqRes # <<>> /\ uniqRes[1].ok) => OwnBodies(prog, uniqRes[1].e)
        /\ compRes # NONE =>
              LET unique_p == uniquify(prog, EmptyMap, 0)
              IN  unique_p.ok => OwnBodies(prog, unique_p.e)

\* The names of the functions an expression declares
FunNames(e) == {d.name : d \in DeclsOf(e)}

\* C24: the captured-variable set lambda_lift computes for a function never
\* contains one of the function's own parameters nor the name of a function,
\* and no name appears twice in a lifted function's extended parameter list.
C24_CapturedFree ==
    (check_prog(prog).ok /\ liftRes # <<>>) =>
        LET unique_p == ll_uniquify(prog, EmptyMap, 0)
        IN  unique_p.ok =>
              /\ \A d \in DeclsOf(unique_p.e) :
                    LET captured == search_unbound(d.body, {}, {}).unbound
                    IN  captured \cap ({d.parameters[i] : i \in DOMAIN d.parameters}
                                       \cup FunNames(unique_p.e)) = {}
              /\ \A k \in DOMAIN liftRes :
                    liftRes[k].ok =>
                        \A i \in DOMAIN liftRes[k].decls :
                            AllDistinct(liftRes[k].decls[i].parameters)

\* The Call nodes of the functions and the main expression lambda_lift returned
CallsOfLifted(r) ==
    {n \in Nodes(r.main) \cup UNION {Nodes(r.decls[i].body) : i \in DOMAIN r.decls} :
        n.tag = "Call"}

\* C25: lambda_lift completes, also for programs that call functions it does
\* not lift, and afterwards every call of a lifted function f, wherever it
\* stands, has as many arguments as f's extended parameter list, the extra
\* ones being f's captured variables in parameter order.
C25_CallArity ==
    (check_prog(prog).ok /\ liftRes # <<>>) =>
        \A k \in DOMAIN liftRes :
            LET r == liftRes[k]
            IN  /\ ll_uniquify(prog, EmptyMap, 0).ok => r.ok
                /\ r.ok =>
                      \A c \in CallsOfLifted(r) : \A i \in DOMAIN r.decls :
                          r.decls[i].name = c.func =>
                              LET ps == r.decls[i].parameters
                              IN  /\ Len(c.params) = Len(ps)
                                  /\ \A j \in DOMAIN ps :
                                        j > Len(ps) - Len(search_unbound(r.decls[i].body, {}, {}).unbound)
                                        => c.params[j] = Var(ps[j])

\* C26: the output of lambda_lift is flat and resolved.  No function of the
\* returned list has a FunDefs node in its body, and no call in the returned
\* functions or in main is an unresolved Call.
C26_FlatResolved ==
    (check_prog(prog).ok /\ liftRes # <<>>) =>
        \A k \in DOMAIN liftRes :
            liftRes[k].ok =>
                /\ \A i \in DOMAIN liftRes[k].decls :
                      \A n \in Nodes(liftRes[k].decls[i].body) : n.tag # "FunDefs"
                /\ CallsOfLifted(liftRes[k]) = {}

\* The relation a comparison primitive stands for
Related(op, a, b) ==
    CASE op = "Lt" -> a < b
      [] op = "Gt" -> a > b
      [] op = "Le" -> a <= b
      [] op = "Ge" -> a >= b

\* A comparison of two number literals within the range
ComparesNumbers(e) ==
    /\ PrimOnLiterals(e) /\ e.op \in CmpOps
    /\ \A i \in DOMAIN e.exps : e.exps[i].tag = "Num" /\ ~OutOfRange(e.exps[i].n)

\* C27: for numbers a and b within the range, the code emitted for a < b,
\* a > b, a <= b and a >= b leaves TRUE in rax exactly when the relation
\* holds and FALSE otherwise, also for operands of opposite sign at the ends
\* of the range, and the reference interpreter gives the same answer.
C27_Comparisons ==
    ComparesNumbers(prog) =>
        LET holds == Related(prog.op, prog.exps[1].n, prog.exps[2].n)
            word == IF holds THEN SNAKE_TRU ELSE SNAKE_FLS
        IN  /\ mach # NONE =>
                  /\ mach.status \in {"running", "returned"}
                  /\ (mach.status = "running" /\ compRes.asm[mach.ip] = Ret) =>
                        mach.regs["rax"] = word
                  /\ mach.status = "returned" => mach.val = word
            /\ interpRes # NONE => (interpRes.ok /\ interpRes.v = SnakeBool(holds))

\* The smallest number compared with the largest, both ways round
C27_Witness ==
    /\ ComparesNumbers(prog)
    /\ {prog.exps[1].n, prog.exps[2].n} = {I63_MIN, I63_MAX}
    /\ mach # NONE /\ mach.status = "returned"
    /\ interpRes # NONE

\* The positions of the labels of an instruction list
LabelsAt(asm) == {i \in DOMAIN asm : asm[i].op = "Label"}

\* C28: every label of the instruction list emitted for one program is
\* defined once: the else, done, false and cmp_done labels are pairwise
\* distinct for any nesting of ifs and comparisons, and none is an error
\* label or start_here.
C28_LabelsUnique ==
    (compRes # NONE /\ compRes.kind = "Ok") =>
        \A i, j \in LabelsAt(compRes.asm) :
            i # j => compRes.asm[i].label # compRes.asm[j].label

\* A program with an if in both branches of an if and an equality test in
\* each inner if: five error labels, start_here, six labels of ifs and four
\* of comparisons
C28_Witness ==
    /\ compRes # NONE /\ compRes.kind = "Ok"
    /\ prog.tag = "If" /\ prog.thn.tag = "If" /\ prog.els.tag = "If"
    /\ Cardinality(LabelsAt(compRes.asm)) >= 16

RECURSIVE SlotMaps(_, _)
\* The slot maps in force at some point of compile_to_instrs_inner(e, .., stack):
\* the map a Let lowers its body on is the one compile_to_instrs_inner leaves
\* after the Let's bound expression and its push; both branches of an If
\* start on the map of the If
SlotMaps(e, stack) ==
    {stack} \cup
    CASE e.tag = "Let" ->
            SlotMaps(e.bound_exp, stack)
            \cup SlotMaps(e.body,
                          compile_to_instrs_inner(SeqLet(e.var, e.bound_exp, SeqImm(ImmNum(0))),
                                                  0, 0, stack).stack)
      [] e.tag = "If" -> SlotMaps(e.thn, stack) \cup SlotMaps(e.els, stack)
      [] OTHER -> {}

\* The offsets of the memory operands of an instruction list
OffsetsUsed(asm) ==
    {asm[i].dst.offset : i \in {j \in DOMAIN asm : asm[j].op = "Mov" /\ asm[j].dst.k = "mem"}}
    \cup {asm[i].src.offset : i \in {j \in DOMAIN asm : asm[j].op = "Mov" /\ asm[j].src.k = "mem"}}

\* C29: during code generation the i-th entry of the slot map has offset
\* 8 * i, so offsets are positive multiples of 8 and no two variables of one
\* slot map share a slot; a Let stores into a slot no entry of its map has;
\* every offset used is smaller than the frame size space_needed computed.
C29_SlotMap ==
    (compRes # NONE /\ compRes.kind = "Ok") =>
        /\ \A m \in SlotMaps(compRes.seq, <<>>) :
              /\ \A i \in DOMAIN m : m[i][2] = 8 * i /\ m[i][2] < compRes.max_stack
              /\ \A i, j \in DOMAIN m : i # j => m[i][2] # m[j][2]
        /\ \A o \in OffsetsUsed(compRes.asm) :
              /\ o > 0 /\ o % 8 = 0 /\ o < compRes.max_stack
              /\ \E m \in SlotMaps(compRes.seq, <<>>) : \E i \in DOMAIN m : m[i][2] = o

\* A compiled program whose slot map reaches three entries
C29_Witness ==
    /\ compRes # NONE /\ compRes.kind = "Ok"
    /\ \E m \in SlotMaps(compRes.seq, <<>>) : Len(m) = 3
    /\ 24 \in OffsetsUsed(compRes.asm)

RECURSIVE LetsCount(_)
\* The number of let-bindings of a sequential expression
LetsCount(e) ==
    CASE e.tag = "Let" -> LetsCount(e.bound_exp) + LetsCount(e.body) + 1
      [] e.tag = "If" -> LetsCount(e.thn) + LetsCount(e.els)
      [] OTHER -> 0

\* C30: the frame size space_needed computes grows at most linearly with
\* the number of let-bindings of the expression: it is at most
\* 16 * (lets + 1) bytes, however deeply the lets and ifs are nested.
C30_LinearFrame ==
    (compRes # NONE /\ compRes.kind = "Ok") =>
        /\ compRes.max_stack = space_needed(compRes.seq)
        /\ compRes.max_stack <= 16 * (LetsCount(compRes.seq) + 1)

====
